---- MODULE Spec2Model ----
(***************************************************************************)
(* Model of the streaming session driver streamChatCompletion of the       *)
(* streaming service: the tag-aware stream splitter, the tool-call delta   *)
(* accumulator and the callback surface.                                   *)
(*                                                                         *)
(* Text is a sequence of one-character strings.  A session is a record of  *)
(* the closure variables of streamChatCompletion; the handlers are         *)
(* operators from session to session and the actions install their result. *)
(***************************************************************************)
EXTENDS Integers, Sequences, FiniteSets, Bags, TLC

VARIABLES
    pc,                    \* position of the call: "fetch", "reading", "returned"
    callbacks,             \* which optional callbacks the caller supplied
    pendingBuffer,         \* let pendingBuffer
    isInsideThinkBlock,    \* let isInsideThinkBlock
    formatDetected,        \* let formatDetected
    accumulatedContent,    \* let accumulatedContent (grows with every onChunk)
    accumulatedReasoning,  \* let accumulatedReasoning (grows with every onReasoning)
    accumulatedToolCalls,  \* Map<number, ToolCall>, entries in insertion order
    calls,                 \* the callbacks invoked so far, in order
    toolCallsOut,          \* the lists passed to onToolCalls, in order
    errors,                \* the messages of the errors passed to onError, in order
    response,              \* what fetch settled with
    text,                  \* the response text the backend streams, as atoms
    pos,                   \* atoms of text delivered so far
    splitMarker,           \* some marker arrived split over several fragments
    nframes,               \* SSE events received so far
    deltaLog,              \* every tool-call delta received, in arrival order
    afterDone,             \* a JSON frame was processed after a [DONE] sentinel
    lastEvent,             \* kind of the event handled by the last step
    lastFrame,             \* the JSON object of that event, if it was one
    chat,                  \* the chat slice of the store (ChatState)
    loop,                  \* the locals of one sendStreamingMessageWithTools call
    streams,               \* the streamChatCompletion calls of the turn, in order
    signal,                \* abortController.signal.aborted of the turn's controller
    env,                   \* what the backend, the tools and the user did so far
    requests,              \* the LLM requests issued, in order
    executions,            \* the executeToolCalls calls and their outcomes, in order
    plugins,               \* PluginLoaderService.loadedPlugins, the stored configs, the manager's flags
    tasks,                 \* the bag of the PluginManager calls suspended at an await
    rejected,              \* plugin hooks that rejected so far
    ended,                 \* how the PluginManager call that ended in the last step ended
    uiActions              \* the executeUIAction calls dispatched so far, in order

\* the state of one streaming call and of the stream it reads
streamVars ==
    <<pc, callbacks, pendingBuffer, isInsideThinkBlock, formatDetected,
      accumulatedContent, accumulatedReasoning, accumulatedToolCalls,
      calls, toolCallsOut, errors, response, text, pos, splitMarker, nframes,
      deltaLog, afterDone, lastEvent, lastFrame>>

\* the state of the orchestration loop and of its environment
loopVars == <<chat, loop, streams, signal, env, requests, executions>>

\* the state of the plugin manager, of the plugin loader and of their callers
pluginVars == <<plugins, tasks, rejected, ended>>

\* the executeUIAction calls
uiVars == <<uiActions>>

vars == <<pc, callbacks, pendingBuffer, isInsideThinkBlock, formatDetected,
          accumulatedContent, accumulatedReasoning, accumulatedToolCalls,
          calls, toolCallsOut, errors, response, text, pos, splitMarker, nframes, deltaLog,
          afterDone, lastEvent, lastFrame,
          chat, loop, streams, signal, env, requests, executions,
          plugins, tasks, rejected, ended, uiActions>>

----------------------------------------------------------------------------
(* Bounds of the model *)

\* JSON frames or sentinels of one splitter stream
MaxFrames == 3
\* pieces an input text is built from
MaxPieces == 3
\* events of one tool-call stream
MaxToolFrames == 3
\* largest tool-call index the backend uses
MaxIndex == 1
\* what a turn's environment does beyond answering each request with at most
\* one well-formed tool call and each tool call with a text result: content
\* deltas, responses with two tool calls or with arguments cut short, repeated
\* frames, sentinels and what follows them, results that are failures or UI
\* resources, abortStreaming dispatches
MaxOdd == 2
\* PluginManager calls that may be suspended at an await at the same time
MaxTasks == 2
\* init and activate hooks that may reject
MaxRejected == 1
\* executeUIAction calls dispatched
MaxActions == 2

(* Program constants *)

FORMAT_DETECTION_THRESHOLD == 3000
\* the literal 15 of the partial-marker guard
GUARD == 15

----------------------------------------------------------------------------
(* Strings *)

Min(S) == CHOOSE x \in S : \A y \in S : x <= y

\* n copies of the character c
Rep(n, c) == [i \in 1..n |-> c]

\* String.prototype.slice(from) and slice(0, to), 0-based as in JavaScript
SliceFrom(s, from) == SubSeq(s, from + 1, Len(s))
SliceTo(s, to) == SubSeq(s, 1, to)

\* the i flag of the regular expressions: letters compare in lower case
Lower(c) ==
    CASE c = "T" -> "t" [] c = "H" -> "h" [] c = "I" -> "i"
      [] c = "N" -> "n" [] c = "K" -> "k" [] c = "G" -> "g"
      [] OTHER -> c

\* the spellings /<think(?:ing)?>/i accepts, in lower case
OpenTags == { <<"<","t","h","i","n","k",">">>,
              <<"<","t","h","i","n","k","i","n","g",">">> }
\* the spellings /<\/think(?:ing)?>/i accepts, in lower case
CloseTags == { <<"<","/","t","h","i","n","k",">">>,
               <<"<","/","t","h","i","n","k","i","n","g",">">> }

MatchesAt(s, i, tag) ==
    /\ i + Len(tag) - 1 <= Len(s)
    /\ \A j \in 1..Len(tag) : Lower(s[i + j - 1]) = tag[j]

\* length of the tag that matches at position i (1-based), 0 if none does
MatchLenAt(s, i, tags) ==
    LET m == {t \in tags : MatchesAt(s, i, t)}
    IN  IF m = {} THEN 0 ELSE Len(CHOOSE t \in m : TRUE)

NoMatch == [found |-> FALSE, index |-> 0, len |-> 0]

\* String.prototype.match without the g flag: the leftmost match, with its
\* 0-based index and the length of the matched text
Match(s, tags) ==
    LET cand == {i \in 1..Len(s) : s[i] = "<" /\ MatchLenAt(s, i, tags) > 0}
    IN  IF cand = {} THEN NoMatch
        ELSE LET i == Min(cand)
             IN  [found |-> TRUE, index |-> i - 1, len |-> MatchLenAt(s, i, tags)]

\* pendingBuffer.slice(-15).includes('<')
TailHasLt(s) ==
    \E i \in 1..Len(s) : i > Len(s) - GUARD /\ s[i] = "<"

----------------------------------------------------------------------------
(* The session: the closure state of one streamChatCompletion call *)

Session ==
    [ callbacks            |-> callbacks,
      pendingBuffer        |-> pendingBuffer,
      isInsideThinkBlock   |-> isInsideThinkBlock,
      formatDetected       |-> formatDetected,
      accumulatedContent   |-> accumulatedContent,
      accumulatedReasoning |-> accumulatedReasoning,
      accumulatedToolCalls |-> accumulatedToolCalls,
      calls                |-> calls,
      toolCallsOut         |-> toolCallsOut,
      errors               |-> errors ]

\* the session right after the locals are declared
NewSession(cb) ==
    [ callbacks            |-> cb,
      pendingBuffer        |-> <<>>,
      isInsideThinkBlock   |-> FALSE,
      formatDetected       |-> FALSE,
      accumulatedContent   |-> <<>>,
      accumulatedReasoning |-> <<>>,
      accumulatedToolCalls |-> <<>>,
      calls                |-> <<>>,
      toolCallsOut         |-> <<>>,
      errors               |-> <<>> ]

Install(s) ==
    /\ pendingBuffer' = s.pendingBuffer
    /\ isInsideThinkBlock' = s.isInsideThinkBlock
    /\ formatDetected' = s.formatDetected
    /\ accumulatedContent' = s.accumulatedContent
    /\ accumulatedReasoning' = s.accumulatedReasoning
    /\ accumulatedToolCalls' = s.accumulatedToolCalls
    /\ calls' = s.calls
    /\ toolCallsOut' = s.toolCallsOut
    /\ errors' = s.errors
    /\ callbacks' = s.callbacks

\* accumulatedContent += c; onChunk(c)
EmitChunk(s, c) ==
    [s EXCEPT !.accumulatedContent = @ \o c, !.calls = Append(@, "onChunk")]

\* accumulatedReasoning += r; onReasoning(r)
EmitReasoning(s, r) ==
    [s EXCEPT !.accumulatedReasoning = @ \o r, !.calls = Append(@, "onReasoning")]

\* if (x) onChunk(x)
ChunkIf(s, c) == IF c # <<>> THEN EmitChunk(s, c) ELSE s

\* if (x && onReasoning) onReasoning(x)
ReasoningIf(s, r) ==
    IF r # <<>> /\ s.callbacks.onReasoning THEN EmitReasoning(s, r) ELSE s

----------------------------------------------------------------------------
(* processBufferWithKnownFormat *)

RECURSIVE ProcessLoop(_, _, _, _)
\* the while loop: buf is pendingBuffer, inside is isInsideThinkBlock, pcont
\* and preas are processedContent and processedReasoning
ProcessLoop(buf, inside, pcont, preas) ==
    LET done == [buf |-> buf, inside |-> inside, content |-> pcont, reasoning |-> preas]
    IN
    IF Len(buf) = 0 THEN done
    ELSE IF inside THEN
        LET closeMatch == Match(buf, CloseTags) IN
        IF closeMatch.found THEN
            ProcessLoop(SliceFrom(buf, closeMatch.index + closeMatch.len), FALSE,
                        pcont, preas \o SliceTo(buf, closeMatch.index))
        ELSE IF Len(buf) > GUARD THEN
            LET safeLength == Len(buf) - GUARD IN
            [buf |-> SliceFrom(buf, safeLength), inside |-> inside,
             content |-> pcont, reasoning |-> preas \o SliceTo(buf, safeLength)]
        ELSE done
    ELSE
        LET openMatch == Match(buf, OpenTags)
            closeMatch == Match(buf, CloseTags)
        IN
        IF openMatch.found /\ (~closeMatch.found \/ openMatch.index < closeMatch.index) THEN
            ProcessLoop(SliceFrom(buf, openMatch.index + openMatch.len), TRUE,
                        pcont \o SliceTo(buf, openMatch.index), preas)
        ELSE IF closeMatch.found THEN
            ProcessLoop(SliceFrom(buf, closeMatch.index + closeMatch.len), FALSE,
                        pcont, preas \o SliceTo(buf, closeMatch.index))
        ELSE IF Len(buf) > GUARD /\ ~TailHasLt(buf) THEN
            LET safeLength == Len(buf) - GUARD IN
            [buf |-> SliceFrom(buf, safeLength), inside |-> inside,
             content |-> pcont \o SliceTo(buf, safeLength), reasoning |-> preas]
        ELSE done

\* the same with no guard: what the loop leaves in the buffer is emitted too
processBufferWithKnownFormat_NoGuard(s) ==
    LET r == ProcessLoop(s.pendingBuffer, s.isInsideThinkBlock, <<>>, <<>>)
        s1 == [s EXCEPT !.pendingBuffer = <<>>, !.isInsideThinkBlock = r.inside]
    IN  ReasoningIf(ChunkIf(s1, r.content \o (IF r.inside THEN <<>> ELSE r.buf)),
                    r.reasoning \o (IF r.inside THEN r.buf ELSE <<>>))

processBufferWithKnownFormat(s) ==
    LET r == ProcessLoop(s.pendingBuffer, s.isInsideThinkBlock, <<>>, <<>>)
        s1 == [s EXCEPT !.pendingBuffer = r.buf, !.isInsideThinkBlock = r.inside]
    IN  ReasoningIf(ChunkIf(s1, r.content), r.reasoning)

----------------------------------------------------------------------------
(* flushBufferAndComplete *)

OnComplete(s) == [s EXCEPT !.calls = Append(@, "onComplete")]

\* onError(error): the log keeps error.message
OnError(s, message) ==
    [s EXCEPT !.calls = Append(@, "onError"), !.errors = Append(@, message)]

\* a flush that clears the held-back text without emitting it
FlushKnownFormat_DropsTail(s) == [s EXCEPT !.pendingBuffer = <<>>]

\* else if (pendingBuffer.length > 0): the format was detected, the remainder
\* goes out according to the state
FlushKnownFormat(s) ==
    LET buf == s.pendingBuffer
        emitted == IF s.isInsideThinkBlock
                   THEN (IF s.callbacks.onReasoning THEN EmitReasoning(s, buf) ELSE s)
                   ELSE EmitChunk(s, buf)
    IN  [emitted EXCEPT !.pendingBuffer = <<>>]

\* the body of flushBufferAndComplete before its final onComplete()
FlushBuffer(s) ==
    LET buf == s.pendingBuffer
        closeMatch == Match(buf, CloseTags)
        openMatch == Match(buf, OpenTags)
        cleared(x) == [x EXCEPT !.pendingBuffer = <<>>]
    IN
    IF ~s.formatDetected /\ Len(buf) > 0 THEN
        IF openMatch.found THEN
            LET s1 == ChunkIf(s, SliceTo(buf, openMatch.index))
                afterOpen == SliceFrom(buf, openMatch.index + openMatch.len)
                closeInRest == Match(afterOpen, CloseTags)
            IN  IF closeInRest.found THEN
                    cleared(ChunkIf(ReasoningIf(s1, SliceTo(afterOpen, closeInRest.index)),
                                    SliceFrom(afterOpen, closeInRest.index + closeInRest.len)))
                ELSE cleared(ReasoningIf(s1, afterOpen))
        ELSE IF closeMatch.found THEN
            cleared(ChunkIf(ReasoningIf(s, SliceTo(buf, closeMatch.index)),
                            SliceFrom(buf, closeMatch.index + closeMatch.len)))
        ELSE cleared(EmitChunk(s, buf))
    ELSE IF Len(buf) > 0 THEN FlushKnownFormat(s)
    ELSE s

flushBufferAndComplete(s) == OnComplete(FlushBuffer(s))

----------------------------------------------------------------------------
(* The parser callback: one SSE event whose data is a JSON object *)

\* the threshold branch emitting the buffer itself and leaving it in place
AssumeNoTags_KeepsBuffer(s) ==
    EmitChunk([s EXCEPT !.formatDetected = TRUE], s.pendingBuffer)

\* else if (pendingBuffer.length >= FORMAT_DETECTION_THRESHOLD): no tag after
\* the threshold, the response is taken to be regular content
AssumeNoTags(s) == processBufferWithKnownFormat([s EXCEPT !.formatDetected = TRUE])

\* if (content) { pendingBuffer += content; ... }
HandleContent(s, content) ==
    IF content = <<>> THEN s
    ELSE
    LET s0 == [s EXCEPT !.pendingBuffer = @ \o content]
        buf == s0.pendingBuffer
        openMatch == Match(buf, OpenTags)
        closeMatch == Match(buf, CloseTags)
    IN
    IF ~s0.formatDetected THEN
        IF openMatch.found THEN
            LET s1 == ChunkIf([s0 EXCEPT !.formatDetected = TRUE],
                              SliceTo(buf, openMatch.index))
            IN  processBufferWithKnownFormat(
                    [s1 EXCEPT !.pendingBuffer = SliceFrom(buf, openMatch.index + openMatch.len),
                               !.isInsideThinkBlock = TRUE])
        ELSE IF closeMatch.found THEN
            LET s1 == ReasoningIf([s0 EXCEPT !.formatDetected = TRUE],
                                  SliceTo(buf, closeMatch.index))
            IN  processBufferWithKnownFormat(
                    [s1 EXCEPT !.pendingBuffer = SliceFrom(buf, closeMatch.index + closeMatch.len),
                               !.isInsideThinkBlock = FALSE])
        ELSE IF Len(buf) >= FORMAT_DETECTION_THRESHOLD THEN AssumeNoTags(s0)
        ELSE s0
    ELSE processBufferWithKnownFormat(s0)

\* an accumulator whose later non-empty id and name replace the ones it holds
ApplyDelta_Overwrites(acc, d) ==
    LET at == {i \in 1..Len(acc) : acc[i].index = d.index} IN
    IF at = {} THEN
        Append(acc, [index |-> d.index, id |-> d.id,
                     type |-> IF d.type = "" THEN "function" ELSE d.type,
                     name |-> d.name, arguments |-> d.arguments])
    ELSE
        LET i == CHOOSE k \in at : TRUE IN
        [acc EXCEPT ![i] =
            [@ EXCEPT !.arguments = @ \o d.arguments,
                      !.id = IF d.id # "" THEN d.id ELSE @,
                      !.name = IF d.name # "" THEN d.name ELSE @]]

\* toolCallDelta folded into the Map; the Map keeps its keys in insertion
\* order, so an entry is [index (the key), id, type, name, arguments]
ApplyDelta(acc, d) ==
    LET at == {i \in 1..Len(acc) : acc[i].index = d.index} IN
    IF at = {} THEN
        Append(acc, [index |-> d.index,
                     id |-> d.id,
                     type |-> IF d.type = "" THEN "function" ELSE d.type,
                     name |-> d.name,
                     arguments |-> d.arguments])
    ELSE
        LET i == CHOOSE k \in at : TRUE
            existing == acc[i]
        IN  [acc EXCEPT ![i] =
                [existing EXCEPT
                    !.arguments = @ \o d.arguments,
                    !.id = IF d.id # "" /\ existing.id = "" THEN d.id ELSE @,
                    !.name = IF d.name # "" /\ existing.name = "" THEN d.name ELSE @]]

RECURSIVE ApplyDeltas(_, _)
\* for (const toolCallDelta of toolCallDeltas) { ... }
ApplyDeltas(acc, ds) ==
    IF ds = <<>> THEN acc ELSE ApplyDeltas(ApplyDelta(acc, Head(ds)), Tail(ds))

\* the arguments passed on as accumulated
ArgumentsOrEmptyObject_AsIs(a) == a

\* tc.function.arguments || '{}'
ArgumentsOrEmptyObject(a) == IF a = <<>> THEN <<"{", "}">> ELSE a

\* Array.from(accumulatedToolCalls.values()).map(...): the entries in the Map's
\* order; index stays in the record only to name the key the entry came from
toolCallsArray(acc) ==
    [i \in 1..Len(acc) |-> [acc[i] EXCEPT !.arguments = ArgumentsOrEmptyObject(@)]]

\* if (usage && onUsage) onUsage(usage)
UsageIf(s, usage) ==
    IF usage /\ s.callbacks.onUsage
    THEN [s EXCEPT !.calls = Append(@, "onUsage")] ELSE s

\* if (toolCallDeltas && onToolCalls) { accumulate }
AccumulateIf(s, deltas) ==
    IF deltas # <<>> /\ s.callbacks.onToolCalls
    THEN [s EXCEPT !.accumulatedToolCalls = ApplyDeltas(@, deltas)] ELSE s

\* if (accumulatedToolCalls.size > 0 && onToolCalls) onToolCalls(toolCallsArray)
DeliverToolCalls(s) ==
    IF Len(s.accumulatedToolCalls) > 0 /\ s.callbacks.onToolCalls
    THEN [s EXCEPT !.calls = Append(@, "onToolCalls"),
                   !.toolCallsOut = Append(@, toolCallsArray(s.accumulatedToolCalls))]
    ELSE s

\* a finish_reason branch that completes the stream itself
HandleFinish_Completes(s, json) ==
    IF json.finish_reason THEN OnComplete(DeliverToolCalls(UsageIf(s, json.usage))) ELSE s

\* if (json.choices?.[0]?.finish_reason) { usage first, then tool calls }
HandleFinish(s, json) ==
    IF json.finish_reason THEN DeliverToolCalls(UsageIf(s, json.usage)) ELSE s

\* a parser callback that reports the usage last, after the finish_reason branch
HandleJson_UsageLast(s, json) ==
    LET s1 == HandleContent(s, json.content)
        s2 == ReasoningIf(s1, json.reasoning)
        s4 == AccumulateIf(s2, json.tool_calls)
        s5 == IF json.finish_reason THEN DeliverToolCalls(s4) ELSE s4
    IN  UsageIf(s5, json.usage)

\* the try block of the parser callback for one parsed JSON object
HandleJson(s, json) ==
    LET s1 == HandleContent(s, json.content)
        s2 == ReasoningIf(s1, json.reasoning)
        s3 == UsageIf(s2, json.usage)
        s4 == AccumulateIf(s3, json.tool_calls)
    IN  HandleFinish(s4, json)

----------------------------------------------------------------------------
(* Inputs *)

EmptyFrame ==
    [content |-> <<>>, reasoning |-> <<>>, usage |-> FALSE,
     tool_calls |-> <<>>, finish_reason |-> FALSE]

\* event.data: the sentinel, the text of a JSON object, or text that is no JSON
DoneData == [kind |-> "done", json |-> EmptyFrame]
JsonData(json) == [kind |-> "json", json |-> json]
MalformedData == [kind |-> "malformed", json |-> EmptyFrame]

\* JSON.parse(data): the object, or a SyntaxError
JSONparse(data) ==
    IF data.kind = "json" THEN [ok |-> TRUE, value |-> data.json]
    ELSE [ok |-> FALSE, value |-> EmptyFrame]

\* a parser callback that reports a frame it cannot parse as a stream error
OnEvent_MalformedIsError(s, data) ==
    IF data.kind = "done" THEN flushBufferAndComplete(s)
    ELSE IF JSONparse(data).ok THEN HandleJson(s, JSONparse(data).value)
    ELSE OnError(s, <<"Unexpected token">>)

\* the parser callback for one event: the sentinel flushes and completes; a
\* SyntaxError of JSON.parse lands in the catch, which only logs
OnEvent(s, data) ==
    IF data.kind = "done" THEN flushBufferAndComplete(s)
    ELSE IF JSONparse(data).ok THEN HandleJson(s, JSONparse(data).value)
    ELSE s

ContentFrame(c) == [EmptyFrame EXCEPT !.content = c]

RECURSIVE Flatten(_)
\* the characters of a sequence of atoms
Flatten(atoms) == IF atoms = <<>> THEN <<>> ELSE Head(atoms) \o Flatten(Tail(atoms))

\* The pieces input texts are built from, each a sequence of atoms; a fragment
\* boundary may fall between any two atoms, so inside every marker.
PieceA == << <<"a">> >>
PieceLt == << <<"<">> >>
PieceOpen == << <<"<">>, <<"t","h","i","n","k">>, <<">">> >>
PieceClose == << <<"<","/">>, <<"T","H","I","N","K">>, <<"i","n","g",">">> >>
PiecePad == << Rep(GUARD, "y"), <<"y">> >>
PieceFiller == << Rep(FORMAT_DETECTION_THRESHOLD - 1, "x"), <<"x">> >>

SmallPieces == {PieceA, PieceLt, PieceOpen, PieceClose, PiecePad}

PieceSeqs(n) == UNION {[1..k -> SmallPieces] : k \in 0..n}

\* texts of up to MaxPieces pieces
ShortTexts == {Flatten(ps) : ps \in PieceSeqs(MaxPieces) \ {<<>>}}

\* texts that begin with the long filler, which counts for two pieces
LongTexts == {PieceFiller \o Flatten(ps) : ps \in PieceSeqs(MaxPieces - 2)}

Texts == ShortTexts \cup LongTexts

\* the characters of the first p atoms of the text
Prefix(p) == Flatten(SubSeq(text, 1, p))

\* the characters delivered so far: the concatenation of all content fragments
Sent == Prefix(pos)

\* the fragment of atoms p+1..q ends a marker that an earlier fragment began
CompletesMarker(p, q) ==
    LET before == Len(Prefix(p))
        upto == Prefix(q)
    IN  \E i \in 1..before :
            /\ i > before - 11
            /\ LET l == MatchLenAt(upto, i, OpenTags \cup CloseTags)
               IN  l > 0 /\ i + l - 1 > before

\* the body of a response that is not ok: response.json() rejects when it is
\* not JSON; a JSON body may carry error.message, which may be the empty string
ErrorBodies ==
    { [isJson |-> FALSE, hasError |-> FALSE, message |-> <<>>],
      [isJson |-> TRUE,  hasError |-> FALSE, message |-> <<>>],
      [isJson |-> TRUE,  hasError |-> TRUE,  message |-> <<>>],
      [isJson |-> TRUE,  hasError |-> TRUE,  message |-> <<"quota exceeded">>] }

NoBody == [isJson |-> FALSE, hasError |-> FALSE, message |-> <<>>]

\* fetch has not settled, or it rejected: there is no response
NoResponse ==
    [kind |-> "none", ok |-> FALSE, status |-> "", statusText |-> "", hasBody |-> FALSE,
     body |-> NoBody]

OkResponse ==
    [kind |-> "http", ok |-> TRUE, status |-> "200", statusText |-> "OK", hasBody |-> TRUE,
     body |-> NoBody]

\* a 2xx response without a body stream
BodylessResponse == [OkResponse EXCEPT !.hasBody = FALSE]

Statuses == { <<"404", "Not Found">>, <<"500", "Internal Server Error">> }

ErrorResponses ==
    { [kind |-> "http", ok |-> FALSE, status |-> st[1], statusText |-> st[2], hasBody |-> TRUE,
       body |-> b] : st \in Statuses, b \in ErrorBodies }

\* `HTTP ${response.status}: ${response.statusText}`
HttpMessage(r) == <<"HTTP ", r.status, ": ", r.statusText>>

\* an error message that keeps the generic text whatever the body says
ErrorMessage_Generic(r) == HttpMessage(r)

\* errorData = await response.json(); errorData.error?.message || errorMessage,
\* the generic message when response.json() rejects
ErrorMessage(r) ==
    IF r.body.isJson /\ r.body.hasError /\ r.body.message # <<>>
    THEN r.body.message
    ELSE HttpMessage(r)

\* the error the try block throws before the read loop starts: the response is
\* not ok, it has no body, or fetch itself rejected (not by an abort)
FetchFailures ==
    { [response |-> r, message |-> ErrorMessage(r)] : r \in ErrorResponses }
    \cup { [response |-> BodylessResponse, message |-> <<"No response body received">>],
           [response |-> NoResponse, message |-> <<"Failed to fetch">>] }

AllCallbacks == [onReasoning |-> TRUE, onToolCalls |-> TRUE, onUsage |-> TRUE]

\* the caller supplies every optional callback, or leaves one of them out
CallbackSets ==
    { AllCallbacks,
      [AllCallbacks EXCEPT !.onReasoning = FALSE],
      [AllCallbacks EXCEPT !.onToolCalls = FALSE],
      [AllCallbacks EXCEPT !.onUsage = FALSE] }

----------------------------------------------------------------------------
(* The chat slice and the locals of the tool-calling thunk before a turn *)

\* null of an id, and null of an error message
NoId == 0
NoError == <<>>

\* const initialState: ChatState
initialState ==
    [ messages           |-> <<>>,
      isStreaming        |-> FALSE,
      streamingMessageId |-> NoId,
      streamingContent   |-> <<>>,
      error              |-> NoError,
      abortController    |-> FALSE,
      pendingToolCalls   |-> <<>>,
      isExecutingTools   |-> FALSE,
      toolCallIteration  |-> 0 ]

\* the thunk has not been dispatched
IdleLoop ==
    [ pc                 |-> "idle",
      iteration          |-> 0,
      shouldContinue     |-> TRUE,
      hasTools           |-> FALSE,
      messages           |-> <<>>,
      assistantToolCalls |-> <<>>,
      assistantMessageId |-> NoId,
      promise            |-> "none",
      thrown             |-> NoError,
      nextId             |-> 1 ]

NoEnv == [odd |-> 0]

LoopIdle ==
    /\ chat = initialState
    /\ loop = IdleLoop
    /\ streams = <<>>
    /\ signal = FALSE
    /\ env = NoEnv
    /\ requests = <<>>
    /\ executions = <<>>

\* the plugins the discovery service finds, in the order of the stored configs:
\* two valid plugins whose manifest.type is 'renderer-replacement'
PluginIds == {"r1", "r2"}
PluginOrder == <<"r1", "r2">>
TypeOf(p) == "renderer-replacement"

\* a fresh install: nothing discovered, nothing loaded, no config enabled
\* placeholder holds the ids whose loaded plugin is the record a failed load
\* stores: status 'error' and the empty instance {}
NoPlugins ==
    [ loaded      |-> [p \in PluginIds |-> "unloaded"],
      placeholder |-> {},
      enabled     |-> [p \in PluginIds |-> FALSE],
      discovered  |-> FALSE,
      initialized |-> FALSE ]

\* no call of the manager ended in the last step
NoOutcome == [op |-> "none", id |-> "none", result |-> "none"]

PluginsIdle ==
    /\ plugins = NoPlugins
    /\ tasks = EmptyBag
    /\ rejected = 0
    /\ ended = NoOutcome

----------------------------------------------------------------------------
(* Actions *)

\* the call has reached its await fetch: the locals of the closure do not
\* exist yet
StreamIdle(cb) ==
    /\ pc = "fetch"
    /\ callbacks = cb
    /\ pendingBuffer = <<>>
    /\ isInsideThinkBlock = FALSE
    /\ formatDetected = FALSE
    /\ accumulatedContent = <<>>
    /\ accumulatedReasoning = <<>>
    /\ accumulatedToolCalls = <<>>
    /\ calls = <<>>
    /\ toolCallsOut = <<>>
    /\ errors = <<>>
    /\ response = NoResponse
    /\ pos = 0
    /\ splitMarker = FALSE
    /\ nframes = 0
    /\ deltaLog = <<>>
    /\ afterDone = FALSE
    /\ lastEvent = "none"
    /\ lastFrame = EmptyFrame

InitSession(cb) ==
    /\ LoopIdle
    /\ PluginsIdle
    /\ uiActions = <<>>
    /\ StreamIdle(cb)

Init ==
    /\ text \in Texts
    /\ InitSession(AllCallbacks)

\* fetch resolves with response.ok and a body: the reader and the locals exist
ResponseOk ==
    /\ pc = "fetch"
    /\ pc' = "reading"
    /\ response' = OkResponse
    /\ lastEvent' = "response"
    /\ lastFrame' = EmptyFrame
    /\ UNCHANGED <<callbacks, pendingBuffer, isInsideThinkBlock, formatDetected,
                   accumulatedContent, accumulatedReasoning, accumulatedToolCalls,
                   calls, toolCallsOut, errors, text, pos, splitMarker, nframes, deltaLog,
                   afterDone>>
    /\ UNCHANGED <<loopVars, pluginVars, uiVars>>

\* fetch rejects with AbortError: the outer catch calls onComplete()
FetchAbort ==
    /\ pc = "fetch"
    /\ pc' = "returned"
    /\ Install(OnComplete(Session))
    /\ lastEvent' = "abort"
    /\ lastFrame' = EmptyFrame
    /\ UNCHANGED <<response, text, pos, splitMarker, nframes, deltaLog, afterDone>>
    /\ UNCHANGED <<loopVars, pluginVars, uiVars>>

\* fetch rejects otherwise, the response is not ok or has no body: the outer
\* catch calls onError(error)
FetchError ==
    /\ pc = "fetch"
    /\ pc' = "returned"
    /\ \E f \in FetchFailures :
          /\ response' = f.response
          /\ Install(OnError(Session, f.message))
    /\ lastEvent' = "error"
    /\ lastFrame' = EmptyFrame
    /\ UNCHANGED <<text, pos, splitMarker, nframes, deltaLog, afterDone>>
    /\ UNCHANGED <<loopVars, pluginVars, uiVars>>

\* one SSE event whose data parses as the JSON object json
Frame(json) ==
    /\ pc = "reading"
    /\ Install(HandleJson(Session, json))
    /\ nframes' = nframes + 1
    /\ deltaLog' = deltaLog \o json.tool_calls
    /\ afterDone' = (afterDone \/ \E i \in 1..Len(calls) : calls[i] = "onComplete")
    /\ lastEvent' = "json"
    /\ lastFrame' = json
    /\ UNCHANGED <<pc, response, text>>
    /\ UNCHANGED <<loopVars, pluginVars, uiVars>>

\* the backend sends the next n atoms of the text as one content delta
ContentEvent(n) ==
    /\ nframes < MaxFrames
    /\ pos + n <= Len(text)
    /\ Frame(ContentFrame(Flatten(SubSeq(text, pos + 1, pos + n))))
    /\ pos' = pos + n
    /\ splitMarker' = (splitMarker \/ CompletesMarker(pos, pos + n))

\* if (data === '[DONE]') { flushBufferAndComplete(); return; }
Done(limit) ==
    /\ pc = "reading"
    /\ nframes < limit
    /\ Install(flushBufferAndComplete(Session))
    /\ nframes' = nframes + 1
    /\ lastEvent' = "sentinel"
    /\ lastFrame' = EmptyFrame
    /\ UNCHANGED <<pc, response, text, pos, splitMarker, deltaLog, afterDone>>
    /\ UNCHANGED <<loopVars, pluginVars, uiVars>>

\* reader.read() resolves with done: flushBufferAndComplete(); break
ReadDone ==
    /\ pc = "reading"
    /\ Install(flushBufferAndComplete(Session))
    /\ pc' = "returned"
    /\ lastEvent' = "end"
    /\ lastFrame' = EmptyFrame
    /\ UNCHANGED <<response, text, pos, splitMarker, nframes, deltaLog, afterDone>>
    /\ UNCHANGED <<loopVars, pluginVars, uiVars>>

\* reader.read() rejects with AbortError: the inner catch flushes and completes
ReadAbort ==
    /\ pc = "reading"
    /\ Install(flushBufferAndComplete(Session))
    /\ pc' = "returned"
    /\ lastEvent' = "abort"
    /\ lastFrame' = EmptyFrame
    /\ UNCHANGED <<response, text, pos, splitMarker, nframes, deltaLog, afterDone>>
    /\ UNCHANGED <<loopVars, pluginVars, uiVars>>

\* reader.read() rejects with another error: rethrown to the outer catch, onError
ReadError ==
    /\ pc = "reading"
    /\ pc' = "returned"
    /\ Install(OnError(Session, <<"network error">>))
    /\ lastEvent' = "error"
    /\ lastFrame' = EmptyFrame
    /\ UNCHANGED <<response, text, pos, splitMarker, nframes, deltaLog, afterDone>>
    /\ UNCHANGED <<loopVars, pluginVars, uiVars>>

Sentinel == Done(MaxFrames)

Next ==
    \/ ResponseOk
    \/ FetchAbort
    \/ FetchError
    \/ \E n \in 1..Len(text) : ContentEvent(n)
    \/ Sentinel
    \/ ReadDone
    \/ ReadAbort
    \/ ReadError

Spec == Init /\ [][Next]_vars

\* the same stream over the short texts alone
InitShort ==
    /\ text \in ShortTexts
    /\ InitSession(AllCallbacks)

SpecShort == InitShort /\ [][Next]_vars

----------------------------------------------------------------------------
(* The tool-call stream: frames that carry tool-call deltas, usage, a        *)
(* structured reasoning field and finish_reason, for every set of optional   *)
(* callbacks.                                                                *)

Indexes == 0..MaxIndex

\* what one delta may carry besides its index
DeltaShapes ==
    { [id |-> "a", name |-> "f", arguments |-> <<"{">>],
      [id |-> "b", name |-> "g", arguments |-> <<"}">>],
      [id |-> "",  name |-> "",  arguments |-> <<"x">>],
      [id |-> "",  name |-> "",  arguments |-> <<>>] }

Deltas ==
    { [index |-> i, id |-> sh.id, type |-> "", name |-> sh.name, arguments |-> sh.arguments] :
        i \in Indexes, sh \in DeltaShapes }

ToolFrames ==
    { [EmptyFrame EXCEPT !.tool_calls = <<d>>] : d \in Deltas }
    \cup { [EmptyFrame EXCEPT !.finish_reason = TRUE],
           [EmptyFrame EXCEPT !.finish_reason = TRUE, !.usage = TRUE],
           [EmptyFrame EXCEPT !.usage = TRUE],
           [EmptyFrame EXCEPT !.reasoning = <<"r">>] }

InitTools ==
    /\ text = <<>>
    /\ \E cb \in CallbackSets : InitSession(cb)

ToolEvent(json) ==
    /\ nframes < MaxToolFrames
    /\ Frame(json)
    /\ UNCHANGED <<pos, splitMarker>>

ToolSentinel == Done(MaxToolFrames)

NextTools ==
    \/ ResponseOk
    \/ FetchAbort
    \/ FetchError
    \/ \E json \in ToolFrames : ToolEvent(json)
    \/ ToolSentinel
    \/ ReadDone
    \/ ReadAbort
    \/ ReadError

SpecTools == InitTools /\ [][NextTools]_vars

----------------------------------------------------------------------------
(* The mixed stream: content deltas, tool-call frames and frames that are    *)
(* not JSON, in any order.                                                   *)

FrameTexts == {Flatten(ps) : ps \in PieceSeqs(1) \ {<<>>}}

InitFrames ==
    /\ text \in FrameTexts
    /\ InitSession(AllCallbacks)

\* what the next event of the mixed stream may be: the next n atoms of the text
\* as one content delta, a tool frame, or data that is not valid JSON
FrameEvents ==
    {[data |-> JsonData(ContentFrame(Flatten(SubSeq(text, pos + 1, pos + n)))), n |-> n] :
        n \in 1..(Len(text) - pos)}
    \cup {[data |-> JsonData(json), n |-> 0] : json \in ToolFrames}
    \cup {[data |-> MalformedData, n |-> 0]}

\* one SSE event goes through the parser callback
FrameEvent(e) ==
    /\ pc = "reading"
    /\ nframes < MaxToolFrames
    /\ Install(OnEvent(Session, e.data))
    /\ nframes' = nframes + 1
    /\ deltaLog' = deltaLog \o e.data.json.tool_calls
    /\ afterDone' = IF e.data.kind = "json"
                    THEN afterDone \/ \E i \in 1..Len(calls) : calls[i] = "onComplete"
                    ELSE afterDone
    /\ lastEvent' = e.data.kind
    /\ lastFrame' = e.data.json
    /\ pos' = pos + e.n
    /\ splitMarker' = (splitMarker \/ (e.n > 0 /\ CompletesMarker(pos, pos + e.n)))
    /\ UNCHANGED <<pc, response, text>>
    /\ UNCHANGED <<loopVars, pluginVars, uiVars>>

NextFrames ==
    \/ ResponseOk
    \/ FetchAbort
    \/ FetchError
    \/ \E e \in FrameEvents : FrameEvent(e)
    \/ ToolSentinel
    \/ ReadDone
    \/ ReadAbort
    \/ ReadError

SpecFrames == InitFrames /\ [][NextFrames]_vars

----------------------------------------------------------------------------
(* The reducers of the chat slice *)

\* setError
setError(state, message) == [state EXCEPT !.error = message]

\* startStreaming: the user message is added only when userContent.trim() is
\* not empty
startStreaming(state, payload) ==
    [state EXCEPT
        !.isStreaming = TRUE,
        !.streamingContent = <<>>,
        !.streamingMessageId = payload.assistantMessageId,
        !.error = NoError,
        !.messages =
            IF payload.userContent # <<>>
            THEN Append(@, [id |-> payload.userMessageId, role |-> "user",
                            content |-> payload.userContent, toolCalls |-> <<>>,
                            tool_call_id |-> "", name |-> "", toolResults |-> <<>>])
            ELSE @]

\* appendStreamingContent
appendStreamingContent(state, chunk) == [state EXCEPT !.streamingContent = @ \o chunk]

\* completeStreaming: the assistant message is added when there is a streaming
\* message id and streaming content
completeStreaming(state) ==
    [state EXCEPT
        !.messages =
            IF state.streamingMessageId # NoId /\ state.streamingContent # <<>>
            THEN Append(@, [id |-> state.streamingMessageId, role |-> "assistant",
                            content |-> state.streamingContent, toolCalls |-> <<>>,
                            tool_call_id |-> "", name |-> "", toolResults |-> <<>>])
            ELSE @,
        !.isStreaming = FALSE,
        !.streamingContent = <<>>,
        !.streamingMessageId = NoId,
        !.abortController = FALSE]

\* setAbortController
setAbortController(state, controller) == [state EXCEPT !.abortController = controller]

\* abortStreaming, without the abort() call it makes on the controller
abortStreaming(state) ==
    [state EXCEPT
        !.isStreaming = FALSE,
        !.streamingContent = <<>>,
        !.streamingMessageId = NoId,
        !.abortController = FALSE]

\* setToolCalls
setToolCalls(state, toolCalls) == [state EXCEPT !.pendingToolCalls = toolCalls]

\* clearToolCalls
clearToolCalls(state) ==
    [state EXCEPT !.pendingToolCalls = <<>>, !.isExecutingTools = FALSE,
                  !.toolCallIteration = 0]

\* setExecutingTools
setExecutingTools(state, flag) == [state EXCEPT !.isExecutingTools = flag]

\* incrementToolIteration
incrementToolIteration(state) == [state EXCEPT !.toolCallIteration = @ + 1]

\* addToolCallMessage
addToolCallMessage(state, message) == [state EXCEPT !.messages = Append(@, message)]

\* updateMessageToolResults: state.messages.find takes the first message of
\* that id
updateMessageToolResults(state, messageId, toolResults) ==
    LET at == {i \in 1..Len(state.messages) : state.messages[i].id = messageId} IN
    IF at = {} THEN state
    ELSE [state EXCEPT !.messages[Min(at)].toolResults = toolResults]

----------------------------------------------------------------------------
(* sendStreamingMessageWithTools: the thunk, cut at its two awaits *)

MAX_TOOL_ITERATIONS == 5

\* the callbacks the thunk passes to provider.streamChatCompletion: onChunk,
\* onComplete, onError and onToolCalls
LoopCallbacks == [onReasoning |-> FALSE, onToolCalls |-> TRUE, onUsage |-> FALSE]

\* the content the user submits
UserContent == <<"q">>

\* a tool choice that forgets the last iteration
tool_choice_NoCap(hasTools, iteration) == IF ~hasTools THEN "none" ELSE "auto"

\* !hasTools ? 'none' : (iteration >= MAX_TOOL_ITERATIONS - 1 ? 'none' : 'auto')
tool_choice(hasTools, iteration) ==
    IF ~hasTools THEN "none"
    ELSE IF iteration >= MAX_TOOL_ITERATIONS - 1 THEN "none" ELSE "auto"

\* the entry of the outgoing list made from a stored message
OutMessage(m) ==
    [role |-> m.role, content |-> m.content, tool_calls |-> m.toolCalls,
     tool_call_id |-> m.tool_call_id, name |-> m.name]

\* a stored message
StoredMessage(id, role, content) ==
    [id |-> id, role |-> role, content |-> content, toolCalls |-> <<>>,
     tool_call_id |-> "", name |-> "", toolResults |-> <<>>]

\* a call of streamChatCompletion that has reached its await fetch
NewStream ==
    [pc |-> "fetch", s |-> NewSession(LoopCallbacks), called |-> FALSE,
     completed |-> FALSE, failed |-> FALSE]

\* JSON.parse(tc.function.arguments) of the response log: over the characters
\* the deltas carry, the only text it accepts is {}
IsJsonText(a) == a = <<"{", "}">>

\* a catch block that records the error and cleans nothing up
CatchBlock_ErrorOnly(state, message) == setError(state, message)

\* the catch of the loop body: setError, completeStreaming, clearToolCalls, throw
CatchBlock(state, message) ==
    clearToolCalls(completeStreaming(setError(state, message)))

\* the loop exits with iteration >= MAX_TOOL_ITERATIONS && shouldContinue
ForceStop(state) ==
    clearToolCalls(completeStreaming(
        setError(state, <<"Maximum tool calling iterations reached">>)))

\* a loop head that lets the iteration count reach the cap itself
LoopHead_OneMore(state, lp) ==
    IF lp.shouldContinue /\ lp.iteration <= MAX_TOOL_ITERATIONS
    THEN /\ chat' = state
         /\ loop' = [lp EXCEPT !.pc = "stream", !.promise = "pending",
                               !.assistantToolCalls = <<>>]
         /\ streams' = Append(streams, NewStream)
         /\ requests' = Append(requests,
                [iteration |-> lp.iteration,
                 tool_choice |-> tool_choice(lp.hasTools, lp.iteration)])
    ELSE /\ chat' = IF lp.iteration >= MAX_TOOL_ITERATIONS /\ lp.shouldContinue
                    THEN ForceStop(state) ELSE state
         /\ loop' = [lp EXCEPT !.pc = "fulfilled", !.promise = "none"]
         /\ UNCHANGED <<streams, requests>>

\* the head of the while loop: the next request is issued, or the loop is left
LoopHead(state, lp) ==
    IF lp.shouldContinue /\ lp.iteration < MAX_TOOL_ITERATIONS
    THEN /\ chat' = state
         /\ loop' = [lp EXCEPT !.pc = "stream", !.promise = "pending",
                               !.assistantToolCalls = <<>>]
         /\ streams' = Append(streams, NewStream)
         /\ requests' = Append(requests,
                [iteration |-> lp.iteration,
                 tool_choice |-> tool_choice(lp.hasTools, lp.iteration)])
    ELSE /\ chat' = IF lp.iteration >= MAX_TOOL_ITERATIONS /\ lp.shouldContinue
                    THEN ForceStop(state) ELSE state
         /\ loop' = [lp EXCEPT !.pc = "fulfilled", !.promise = "none"]
         /\ UNCHANGED <<streams, requests>>

\* the thunk is dispatched: everything up to the first await
StartTurn(hasTools) ==
    /\ loop.pc = "idle"
    /\ LET userMessageId == loop.nextId
           assistantMessageId == loop.nextId + 1
           state1 == startStreaming(chat, [userMessageId |-> userMessageId,
                                           assistantMessageId |-> assistantMessageId,
                                           userContent |-> UserContent])
           state2 == clearToolCalls(state1)
           history == [i \in 1..Len(chat.messages) |-> OutMessage(chat.messages[i])]
           messages == Append(history,
                          [role |-> "user", content |-> UserContent, tool_calls |-> <<>>,
                           tool_call_id |-> "", name |-> ""])
           state3 == setAbortController(state2, TRUE)
       IN  LoopHead(state3, [loop EXCEPT !.iteration = 0, !.shouldContinue = TRUE,
                                         !.hasTools = hasTools, !.messages = messages,
                                         !.nextId = @ + 2])
    /\ signal' = FALSE
    /\ UNCHANGED <<env, executions>>
    /\ UNCHANGED <<streamVars, pluginVars, uiVars>>

\* the body after the stream promise resolved, up to the next await or exit
AfterResolve(state, lp) ==
    LET calls_ == lp.assistantToolCalls IN
    IF \E i \in 1..Len(calls_) : ~IsJsonText(calls_[i].arguments) THEN
        /\ chat' = CatchBlock(state, <<"Unexpected end of JSON input">>)
        /\ loop' = [lp EXCEPT !.pc = "rejected", !.promise = "none",
                              !.thrown = <<"Unexpected end of JSON input">>]
        /\ UNCHANGED <<streams, requests, executions>>
    ELSE IF Len(calls_) > 0 THEN
        LET assistantMessageId == lp.nextId
            assistantContent == state.streamingContent
            assistantMessage ==
                [StoredMessage(assistantMessageId, "assistant", assistantContent)
                    EXCEPT !.toolCalls = calls_]
            state1 == addToolCallMessage(state, assistantMessage)
            state2 == completeStreaming(state1)
            state3 == setExecutingTools(state2, TRUE)
        IN  /\ chat' = state3
            /\ loop' = [lp EXCEPT !.pc = "tools", !.promise = "none",
                                  !.assistantMessageId = assistantMessageId,
                                  !.messages = Append(@, OutMessage(assistantMessage)),
                                  !.nextId = @ + 1]
            /\ executions' = Append(executions,
                    [iteration |-> lp.iteration, calls |-> Len(calls_),
                     outcome |-> "pending",
                     completed |-> streams[Len(streams)].completed,
                     aborted |-> signal])
            /\ UNCHANGED <<streams, requests>>
    ELSE
        /\ chat' = clearToolCalls(completeStreaming(state))
        /\ loop' = [lp EXCEPT !.pc = "fulfilled", !.promise = "none",
                              !.shouldContinue = FALSE]
        /\ UNCHANGED <<streams, requests, executions>>

\* the stream promise settled and the thunk runs on
AfterStream ==
    /\ loop.pc = "stream"
    /\ loop.promise \in {"resolved", "rejected"}
    /\ IF loop.promise = "rejected"
       THEN /\ chat' = CatchBlock(chat, loop.thrown)
            /\ loop' = [loop EXCEPT !.pc = "rejected", !.promise = "none"]
            /\ UNCHANGED <<streams, requests, executions>>
       ELSE AfterResolve(chat, loop)
    /\ UNCHANGED <<signal, env>>
    /\ UNCHANGED <<streamVars, pluginVars, uiVars>>

----------------------------------------------------------------------------
(* The tool executor *)

\* what a tool call may come back as: a text result, a failure captured as a
\* result with isError, a result with an interactive UI resource, a result
\* flagged hasUI that carries no resource, or a result whose content is an
\* object and no string
ResultKinds == {"text", "error", "ui", "flag", "object"}

\* uiResource undefined
NoResource == <<>>

\* the payload of a UI resource
UIPayload == <<"<html>">>

\* the ToolResult of one call; content is tagged with its JavaScript type
ResultOf(call, kind) ==
    [ tool_call_id |-> call.id,
      name         |-> call.name,
      content      |-> [ isString |-> kind # "object",
                         value |-> CASE kind = "text" -> <<"r">>
                                     [] kind = "error" -> <<"e">>
                                     [] kind = "ui" -> UIPayload
                                     [] kind = "flag" -> <<"f">>
                                     [] OTHER -> <<"o">> ],
      isError      |-> kind = "error",
      hasUI        |-> kind \in {"ui", "flag"},
      uiResource   |-> IF kind = "ui" THEN UIPayload ELSE NoResource ]

\* executeToolCalls: one result per call, in the order of the calls
executeToolCalls(toolCalls, kinds) ==
    [i \in 1..Len(toolCalls) |-> ResultOf(toolCalls[i], kinds[i])]

\* JSON.stringify of a content that is no string: the text of the object
JSONstringify(content) == <<"{">> \o content.value \o <<"}">>

\* a content string that passes the result content on for a UI resource too
contentString_Payload(result) ==
    IF result.content.isString THEN result.content.value
    ELSE JSONstringify(result.content)

\* the content of the tool message: the fixed confirmation for a UI resource,
\* the result content otherwise, stringified when it is no string
contentString(result) ==
    IF result.hasUI /\ result.uiResource # NoResource
    THEN <<"Interactive UI component displayed successfully. The user can now interact with the ",
           result.name, " interface.">>
    ELSE IF result.content.isString THEN result.content.value
    ELSE JSONstringify(result.content)

RECURSIVE AddResults(_, _, _)
RECURSIVE AddResults_Reversed(_, _, _)
RECURSIVE AddResults_SkipsErrors(_, _, _)

\* a results loop that walks the results from the last to the first
AddResults_Reversed(state, lp, results) ==
    IF results = <<>> THEN [state |-> state, lp |-> lp]
    ELSE LET result == results[Len(results)]
             toolResultMessage ==
                 [ id |-> lp.nextId, role |-> "tool", content |-> contentString(result),
                   toolCalls |-> <<>>, tool_call_id |-> result.tool_call_id,
                   name |-> result.name, toolResults |-> <<result>> ]
         IN  AddResults_Reversed(addToolCallMessage(state, toolResultMessage),
                        [lp EXCEPT !.messages = Append(@, OutMessage(toolResultMessage)),
                                   !.nextId = @ + 1],
                        SubSeq(results, 1, Len(results) - 1))

RECURSIVE AddResults_NameAsId(_, _, _)
\* a results loop that files each result under the tool's name
AddResults_NameAsId(state, lp, results) ==
    IF results = <<>> THEN [state |-> state, lp |-> lp]
    ELSE LET result == Head(results)
             toolResultMessage ==
                 [ id |-> lp.nextId, role |-> "tool", content |-> contentString(result),
                   toolCalls |-> <<>>, tool_call_id |-> result.name,
                   name |-> result.name, toolResults |-> <<result>> ]
         IN  AddResults_NameAsId(addToolCallMessage(state, toolResultMessage),
                        [lp EXCEPT !.messages = Append(@, OutMessage(toolResultMessage)),
                                   !.nextId = @ + 1],
                        Tail(results))

\* a results loop that leaves the failed results out of the history
AddResults_SkipsErrors(state, lp, results) ==
    IF results = <<>> THEN [state |-> state, lp |-> lp]
    ELSE LET result == Head(results)
             toolResultMessage ==
                 [ id |-> lp.nextId, role |-> "tool", content |-> contentString(result),
                   toolCalls |-> <<>>, tool_call_id |-> result.tool_call_id,
                   name |-> result.name, toolResults |-> <<result>> ]
         IN  IF result.isError THEN AddResults_SkipsErrors(state, lp, Tail(results))
             ELSE AddResults_SkipsErrors(addToolCallMessage(state, toolResultMessage),
                        [lp EXCEPT !.messages = Append(@, OutMessage(toolResultMessage)),
                                   !.nextId = @ + 1],
                        Tail(results))

\* for (const result of toolResults): addToolCallMessage and messages.push
AddResults(state, lp, results) ==
    IF results = <<>> THEN [state |-> state, lp |-> lp]
    ELSE LET result == Head(results)
             toolResultMessage ==
                 [ id |-> lp.nextId, role |-> "tool", content |-> contentString(result),
                   toolCalls |-> <<>>, tool_call_id |-> result.tool_call_id,
                   name |-> result.name, toolResults |-> <<result>> ]
         IN  AddResults(addToolCallMessage(state, toolResultMessage),
                        [lp EXCEPT !.messages = Append(@, OutMessage(toolResultMessage)),
                                   !.nextId = @ + 1],
                        Tail(results))

\* results other than plain text among the kinds
Specials(kinds) == Cardinality({i \in DOMAIN kinds : kinds[i] # "text"})

Settle(outcome) ==
    [executions EXCEPT ![Len(executions)] = [@ EXCEPT !.outcome = outcome]]

\* executeToolCalls resolved: the results are folded into the history and the
\* loop goes to its next iteration
AfterTools ==
    /\ loop.pc = "tools"
    /\ \E kinds \in [1..Len(loop.assistantToolCalls) -> ResultKinds] :
          /\ env.odd + Specials(kinds) <= MaxOdd
          /\ LET toolResults == executeToolCalls(loop.assistantToolCalls, kinds)
                 state1 == setExecutingTools(chat, FALSE)
                 state2 == updateMessageToolResults(state1, loop.assistantMessageId, toolResults)
                 added == AddResults(state2, loop, toolResults)
                 state3 == incrementToolIteration(added.state)
                 lp == [added.lp EXCEPT !.iteration = @ + 1, !.shouldContinue = TRUE,
                                        !.nextId = @ + 2]
                 state4 == startStreaming(state3, [userMessageId |-> added.lp.nextId,
                                                   assistantMessageId |-> added.lp.nextId + 1,
                                                   userContent |-> <<>>])
             IN  /\ LoopHead(state4, lp)
                 /\ executions' = Settle("returned")
          /\ env' = [env EXCEPT !.odd = @ + Specials(kinds)]
    /\ UNCHANGED signal
    /\ UNCHANGED <<streamVars, pluginVars, uiVars>>

\* executeToolCalls rejected: the catch of the loop body
ToolsThrow ==
    /\ loop.pc = "tools"
    /\ chat' = CatchBlock(chat, <<"tool execution failed">>)
    /\ loop' = [loop EXCEPT !.pc = "rejected", !.thrown = <<"tool execution failed">>]
    /\ executions' = Settle("threw")
    /\ UNCHANGED <<streams, signal, env, requests>>
    /\ UNCHANGED <<streamVars, pluginVars, uiVars>>

----------------------------------------------------------------------------
(* The streaming calls of a turn and their callbacks into the thunk *)

\* the ids the backend gives the tool calls of the i-th response of a turn
CallIds ==
    << <<"c10", "c11">>, <<"c20", "c21">>, <<"c30", "c31">>,
       <<"c40", "c41">>, <<"c50", "c51">>, <<"c60", "c61">> >>

\* a frame that carries n whole tool calls and the finish_reason
CallsFrame(i, n, arguments) ==
    [EmptyFrame EXCEPT
        !.tool_calls = [j \in 1..n |->
            [index |-> j - 1, id |-> CallIds[i][j], type |-> "function", name |-> "f",
             arguments |-> arguments]],
        !.finish_reason = TRUE]

\* the frame of a response that asks for one tool call
PlainFrame(i) == CallsFrame(i, 1, <<"{", "}">>)

\* the events the backend may send on the i-th call: a content delta, tool
\* calls with arguments that are JSON or cut short, the sentinel
LoopEvents(i) ==
    { JsonData(ContentFrame(<<"a">>)),
      JsonData(PlainFrame(i)),
      JsonData(CallsFrame(i, 1, <<"{">>)),
      JsonData(CallsFrame(i, 2, <<"{", "}">>)),
      DoneData }

\* the first plain frame of a call that has not completed is the usual answer
IsOdd(i, data) ==
    ~(data = JsonData(PlainFrame(i)) /\ ~streams[i].called /\ ~streams[i].completed)

\* the closure state of a call that has returned
NoSession == <<>>

\* the logs of a session, which no handler reads, emptied
Forget(s) ==
    [s EXCEPT !.calls = <<>>, !.toolCallsOut = <<>>, !.errors = <<>>,
              !.accumulatedContent = <<>>, !.accumulatedReasoning = <<>>]

Invoked(s, name) == \E n \in 1..Len(s.calls) : s.calls[n] = name

\* the continuation of the awaited stream promise is queued: it runs before
\* any new read, fetch result or user action
Busy == loop.pc = "stream" /\ loop.promise \in {"resolved", "rejected"}

\* the callbacks the i-th call invoked in one step, s being its session after
\* the step: onChunk, onToolCalls, onError and onComplete of the thunk
Deliver(state, lp, i, s) ==
    LET current == i = Len(streams) /\ lp.pc = "stream"
        settles == current /\ lp.promise = "pending"
        toolCalls == s.toolCallsOut[Len(s.toolCallsOut)]
        state1 == IF s.accumulatedContent # <<>>
                  THEN appendStreamingContent(state, s.accumulatedContent) ELSE state
        state2 == IF s.toolCallsOut # <<>> THEN setToolCalls(state1, toolCalls) ELSE state1
        state3 == IF s.errors # <<>> THEN setError(state2, s.errors[Len(s.errors)]) ELSE state2
        lp1 == IF s.toolCallsOut # <<>> /\ current
               THEN [lp EXCEPT !.assistantToolCalls = toolCalls] ELSE lp
        lp2 == IF settles /\ Invoked(s, "onError")
               THEN [lp1 EXCEPT !.promise = "rejected", !.thrown = s.errors[Len(s.errors)]]
               ELSE IF settles /\ Invoked(s, "onComplete")
               THEN [lp1 EXCEPT !.promise = "resolved"]
               ELSE lp1
    IN  [state |-> state3, lp |-> lp2]

\* the i-th call takes a step that leaves it at position to with session s
StreamStep(i, to, s, called) ==
    LET d == Deliver(chat, loop, i, s) IN
    /\ chat' = d.state
    /\ loop' = d.lp
    /\ streams' = [streams EXCEPT ![i] =
            [ pc |-> to,
              s |-> IF to = "returned" THEN NoSession ELSE Forget(s),
              called |-> to # "returned" /\ (@.called \/ called),
              completed |-> @.completed \/ Invoked(s, "onComplete"),
              failed |-> @.failed \/ Invoked(s, "onError") ]]
    /\ UNCHANGED <<signal, requests, executions>>
    /\ UNCHANGED <<streamVars, pluginVars, uiVars>>

\* the failures of fetch a turn meets: a 500 that carries a message, no network
LoopFailures ==
    {f \in FetchFailures :
        \/ f.response.kind = "none"
        \/ f.response.status = "500" /\ f.response.body.message # <<>>}

LoopResponseOk(i) ==
    /\ streams[i].pc = "fetch" /\ ~signal /\ ~Busy
    /\ StreamStep(i, "reading", streams[i].s,FALSE)
    /\ UNCHANGED env

LoopFetchError(i) ==
    /\ streams[i].pc = "fetch" /\ ~signal /\ ~Busy
    /\ \E f \in LoopFailures : StreamStep(i, "returned", OnError(streams[i].s, f.message),FALSE)
    /\ UNCHANGED env

LoopFetchAbort(i) ==
    /\ streams[i].pc = "fetch" /\ signal /\ ~Busy
    /\ StreamStep(i, "returned", OnComplete(streams[i].s),FALSE)
    /\ UNCHANGED env

LoopEvent(i) ==
    /\ streams[i].pc = "reading" /\ ~signal
    /\ Busy => i = Len(streams)
    /\ \E data \in LoopEvents(i) :
          /\ IsOdd(i, data) => env.odd < MaxOdd
          /\ StreamStep(i, "reading", OnEvent(streams[i].s, data),
                        data.json.tool_calls # <<>>)
          /\ env' = [env EXCEPT !.odd = @ + (IF IsOdd(i, data) THEN 1 ELSE 0)]

LoopReadDone(i) ==
    /\ streams[i].pc = "reading" /\ ~signal /\ ~Busy
    /\ StreamStep(i, "returned", flushBufferAndComplete(streams[i].s),FALSE)
    /\ UNCHANGED env

LoopReadAbort(i) ==
    /\ streams[i].pc = "reading" /\ signal /\ ~Busy
    /\ StreamStep(i, "returned", flushBufferAndComplete(streams[i].s),FALSE)
    /\ UNCHANGED env

LoopReadError(i) ==
    /\ streams[i].pc = "reading" /\ ~signal /\ ~Busy
    /\ StreamStep(i, "returned", OnError(streams[i].s, <<"network error">>),FALSE)
    /\ UNCHANGED env

\* the user interface dispatches abortStreaming: the reducer calls abort() on
\* the controller the state holds
AbortStreaming ==
    /\ ~Busy
    /\ env.odd < MaxOdd
    /\ chat' = abortStreaming(chat)
    /\ signal' = (signal \/ chat.abortController)
    /\ env' = [env EXCEPT !.odd = @ + 1]
    /\ UNCHANGED <<loop, streams, requests, executions>>
    /\ UNCHANGED <<streamVars, pluginVars, uiVars>>

InitLoop ==
    /\ text = <<>>
    /\ InitSession(AllCallbacks)

NextLoop ==
    \/ \E hasTools \in BOOLEAN : StartTurn(hasTools)
    \/ AfterStream
    \/ AfterTools
    \/ ToolsThrow
    \/ AbortStreaming
    \/ \E i \in 1..Len(streams) : LoopResponseOk(i)
    \/ \E i \in 1..Len(streams) : LoopFetchError(i)
    \/ \E i \in 1..Len(streams) : LoopFetchAbort(i)
    \/ \E i \in 1..Len(streams) : LoopEvent(i)
    \/ \E i \in 1..Len(streams) : LoopReadDone(i)
    \/ \E i \in 1..Len(streams) : LoopReadAbort(i)
    \/ \E i \in 1..Len(streams) : LoopReadError(i)

SpecLoop == InitLoop /\ [][NextLoop]_vars

\* a step of one of the streaming calls of the turn
StreamProgress ==
    \E i \in 1..Len(streams) :
        \/ LoopResponseOk(i) \/ LoopFetchError(i) \/ LoopFetchAbort(i)
        \/ LoopEvent(i)
        \/ LoopReadDone(i) \/ LoopReadAbort(i) \/ LoopReadError(i)

\* a step of the turn that is no act of the user: a streaming call goes on,
\* the tool execution settles, the continuation of a settled await is run
TurnProgress == StreamProgress \/ AfterTools \/ ToolsThrow \/ AfterStream

\* the loop when the turn is not left waiting for ever while one of its
\* streaming calls, its tool execution or its continuation can go on
SpecLoopFair == SpecLoop /\ WF_vars(TurnProgress)

----------------------------------------------------------------------------
(* The plugin manager and the plugin loader. A call of the manager runs to   *)
(* the await of a plugin hook or of the discovery scan, is suspended there   *)
(* while other calls run, and goes on when the hook settles. A task is the   *)
(* rest of one call: the steps it has still to take, the first of them       *)
(* suspended at its await.                                                   *)

Step(k, id, guarded) == [k |-> k, id |-> id, guarded |-> guarded]

\* getActiveReplacementPluginId: the first loaded plugin that is active and a
\* renderer replacement, or none
getActiveReplacementPluginId(st) ==
    LET active == {i \in 1..Len(PluginOrder) :
                      /\ st.loaded[PluginOrder[i]] = "active"
                      /\ TypeOf(PluginOrder[i]) = "renderer-replacement"}
    IN  IF active = {} THEN "none"
        ELSE PluginOrder[CHOOSE i \in active : \A j \in active : i <= j]

\* the part of a loader call that runs before its await: it returns at once
\* ("done"), throws, or reaches the await of the plugin's hook. The empty
\* instance of a failed load has no hooks: nothing is awaited for it
Begin(st, s) ==
    CASE s.k = "throw" -> "throw"
      [] s.k = "load" ->
             IF st.loaded[s.id] # "unloaded" THEN "done" ELSE "await"
      [] s.k = "unload" ->
             IF st.loaded[s.id] = "unloaded" \/ s.id \in st.placeholder
             THEN "done" ELSE "await"
      [] s.k = "activate" ->
             IF st.loaded[s.id] = "unloaded" THEN "throw"
             ELSE IF st.loaded[s.id] = "active" \/ s.id \in st.placeholder
             THEN "done" ELSE "await"
      [] s.k = "deactivate" ->
             IF st.loaded[s.id] = "unloaded" THEN "throw"
             ELSE IF st.loaded[s.id] # "active" \/ s.id \in st.placeholder
             THEN "done" ELSE "await"
      [] s.k = "discover" -> "await"
      [] OTHER -> "done"

\* what a step that returns at once has done: updatePluginConfig, the
\* assignment of this.initialized, and the loader calls on the empty instance
Apply(st, s) ==
    CASE s.k = "enabled"     -> [st EXCEPT !.enabled[s.id] = TRUE]
      [] s.k = "disabled"    -> [st EXCEPT !.enabled[s.id] = FALSE]
      [] s.k = "initialized" -> [st EXCEPT !.initialized = TRUE]
      [] s.k = "activate" /\ s.id \in st.placeholder ->
             [st EXCEPT !.loaded[s.id] = "active"]
      [] s.k = "deactivate" /\ s.id \in st.placeholder /\ st.loaded[s.id] = "active" ->
             [st EXCEPT !.loaded[s.id] = "inactive"]
      [] s.k = "unload" /\ s.id \in st.placeholder ->
             [st EXCEPT !.loaded[s.id] = "unloaded", !.placeholder = @ \ {s.id}]
      [] OTHER               -> st

\* inside the try of loadEnabledPlugins an exception goes on with the next
\* config
Catch(todo) ==
    IF ~Head(todo).guarded THEN <<>>
    ELSE IF Head(todo).k = "load" THEN Tail(Tail(todo))
    ELSE Tail(todo)

\* the call is left by an exception
Thrown(st) == [st |-> st, todo |-> <<>>, threw |-> TRUE]

RECURSIVE RunOn(_, _)
\* run the steps of a call until one is suspended, none is left or one throws
RunOn(st, todo) ==
    IF todo = <<>> THEN [st |-> st, todo |-> <<>>, threw |-> FALSE]
    ELSE LET s == Head(todo)
             o == Begin(st, s)
         IN  CASE o = "await" -> [st |-> st, todo |-> todo, threw |-> FALSE]
               [] o = "throw" -> IF s.guarded THEN RunOn(st, Catch(todo)) ELSE Thrown(st)
               [] OTHER       -> RunOn(Apply(st, s), Tail(todo))

\* what follows the await of a loader call: the map or the status is written.
\* activatePlugin and deactivatePlugin write the status of the object they took
\* from the map before the await, which is no longer the loaded plugin when the
\* entry was deleted or set again in between (stale). A load whose init hook
\* rejected stores the failure placeholder
Finish(st, s, stale, ok) ==
    CASE s.k = "load"       ->
             IF ok THEN [st EXCEPT !.loaded[s.id] = "loaded", !.placeholder = @ \ {s.id}]
             ELSE [st EXCEPT !.loaded[s.id] = "error", !.placeholder = @ \cup {s.id}]
      [] s.k = "unload"     ->
             [st EXCEPT !.loaded[s.id] = "unloaded", !.placeholder = @ \ {s.id}]
      [] s.k = "activate"   ->
             IF stale THEN st
             ELSE [st EXCEPT !.loaded[s.id] = IF ok THEN "active" ELSE "error"]
      [] s.k = "deactivate" ->
             IF stale THEN st ELSE [st EXCEPT !.loaded[s.id] = "inactive"]
      [] s.k = "discover"   -> [st EXCEPT !.discovered = TRUE]
      [] OTHER              -> st

RECURSIVE loadEnabledPlugins(_, _)
\* loadEnabledPlugins: loadPlugin and activatePlugin of every config that is
\* enabled when the method starts, each pair in a try
loadEnabledPlugins(st, i) ==
    IF i > Len(PluginOrder) THEN <<>>
    ELSE (IF st.enabled[PluginOrder[i]]
          THEN <<Step("load", PluginOrder[i], TRUE),
                 Step("activate", PluginOrder[i], TRUE)>>
          ELSE <<>>) \o loadEnabledPlugins(st, i + 1)

\* the suspended calls with one more, unless it has run to its end
Suspend(ts, t) == IF t.todo = <<>> THEN ts ELSE ts (+) SetToBag({t})

\* the outcome of a call after a run: none while it is suspended
Ended(op, id, r) ==
    IF r.todo # <<>> THEN NoOutcome
    ELSE [op |-> op, id |-> id, result |-> IF r.threw THEN "threw" ELSE "returned"]

\* a call of the manager: its steps run up to the first await
Call(op, id, todo) ==
    /\ BagCardinality(tasks) < MaxTasks
    /\ LET r == RunOn(plugins, todo)
       IN  /\ plugins' = r.st
           /\ tasks' = Suspend(tasks, [op |-> op, id |-> id, todo |-> r.todo, stale |-> FALSE])
           /\ ended' = Ended(op, id, r)
    /\ UNCHANGED rejected
    /\ UNCHANGED <<streamVars, loopVars, uiVars>>

\* enablePlugin: throws when the plugin is not discovered, or when it is a
\* renderer replacement and another one is active; else loadPlugin,
\* activatePlugin and the config update
enablePlugin(pluginId) ==
    IF ~plugins.discovered THEN <<Step("throw", pluginId, FALSE)>>
    ELSE IF /\ TypeOf(pluginId) = "renderer-replacement"
            /\ getActiveReplacementPluginId(plugins) \notin {"none", pluginId}
    THEN <<Step("throw", pluginId, FALSE)>>
    ELSE <<Step("load", pluginId, FALSE), Step("activate", pluginId, FALSE),
           Step("enabled", pluginId, FALSE)>>

\* disablePlugin: deactivatePlugin when the plugin is active, then the config
\* update
disablePlugin(pluginId) ==
    (IF plugins.loaded[pluginId] = "active"
     THEN <<Step("deactivate", pluginId, FALSE)>> ELSE <<>>)
    \o <<Step("disabled", pluginId, FALSE)>>

\* reloadPlugin: throws when the plugin is not discovered; else unloadPlugin,
\* loadPlugin and, when the config was enabled at the call, activatePlugin
reloadPlugin(pluginId) ==
    IF ~plugins.discovered THEN <<Step("throw", pluginId, FALSE)>>
    ELSE <<Step("unload", pluginId, FALSE), Step("load", pluginId, FALSE)>>
         \o (IF plugins.enabled[pluginId]
             THEN <<Step("activate", pluginId, FALSE)>> ELSE <<>>)

\* initialize: returns when this.initialized is set; else discoverPlugins,
\* whose scan is awaited, loadEnabledPlugins and the flag
initialize ==
    IF plugins.initialized THEN <<>> ELSE <<Step("discover", "none", FALSE)>>

EnablePlugin(pluginId) == Call("enablePlugin", pluginId, enablePlugin(pluginId))

DisablePlugin(pluginId) == Call("disablePlugin", pluginId, disablePlugin(pluginId))

ReloadPlugin(pluginId) == Call("reloadPlugin", pluginId, reloadPlugin(pluginId))

Initialize == Call("initialize", "none", initialize)

\* the entry of s.id in the map was deleted or set again: the calls suspended
\* in activatePlugin or deactivatePlugin of that plugin hold the old object
Orphan(t, s) ==
    IF /\ s.k \in {"load", "unload"}
       /\ Head(t.todo).k \in {"activate", "deactivate"}
       /\ Head(t.todo).id = s.id
    THEN [t EXCEPT !.stale = TRUE]
    ELSE t

\* the await of task t is over: the hook resolved or rejected (ok), the loader
\* call finishes and the manager's call runs on to its next await
HookSettles(t, ok) ==
    LET s     == Head(t.todo)
        st    == Finish(plugins, s, t.stale, ok)
        after == IF ~ok THEN Catch(t.todo)
                 ELSE IF s.k = "discover"
                 THEN loadEnabledPlugins(st, 1) \o <<Step("initialized", "none", FALSE)>>
                 ELSE Tail(t.todo)
        r     == IF ~ok /\ ~s.guarded THEN Thrown(st) ELSE RunOn(st, after)
    IN  /\ plugins' = r.st
        /\ tasks' = Suspend(BagOfAll(LAMBDA u : Orphan(u, s), tasks (-) SetToBag({t})),
                            [t EXCEPT !.todo = r.todo, !.stale = FALSE])
        /\ ended' = Ended(t.op, t.id, r)
        /\ UNCHANGED <<streamVars, loopVars, uiVars>>

\* the hook, or the scan, resolves
HookResolves(t) ==
    /\ HookSettles(t, TRUE)
    /\ UNCHANGED rejected

\* the init hook rejects: the load stores the failure placeholder and throws;
\* the activate hook rejects: the status becomes 'error' and the call throws
HookRejects(t) ==
    /\ Head(t.todo).k \in {"load", "activate"}
    /\ rejected < MaxRejected
    /\ rejected' = rejected + 1
    /\ HookSettles(t, FALSE)

InitPlugins ==
    /\ text = <<>>
    /\ InitSession(AllCallbacks)

NextPlugins ==
    \/ Initialize
    \/ \E p \in PluginIds : EnablePlugin(p)
    \/ \E p \in PluginIds : DisablePlugin(p)
    \/ \E p \in PluginIds : ReloadPlugin(p)
    \/ \E t \in BagToSet(tasks) : HookResolves(t)
    \/ \E t \in BagToSet(tasks) : HookRejects(t)

SpecPlugins == InitPlugins /\ [][NextPlugins]_vars

-----------------------------------------------------------------------------
(* executeUIAction: the thunk a UI resource dispatches to run its tool again. *)
(* It reads the store once, awaits the tool, and writes the results of the    *)
(* message it found in what it read.                                          *)

\* the chat slice after a turn whose response asked for two tool calls, both
\* answered with a UI resource, and whose second response was empty
ChatWithResults ==
    LET toolCalls == CallsFrame(1, 2, <<"{", "}">>).tool_calls
        toolResults == executeToolCalls(toolCalls, <<"ui", "ui">>)
        state1 == startStreaming(initialState, [userMessageId |-> 1,
                                                assistantMessageId |-> 2,
                                                userContent |-> UserContent])
        assistantMessage ==
            [StoredMessage(3, "assistant", <<>>) EXCEPT !.toolCalls = toolCalls]
        state2 == completeStreaming(addToolCallMessage(state1, assistantMessage))
        state3 == updateMessageToolResults(state2, 3, toolResults)
        state4 == AddResults(state3, [IdleLoop EXCEPT !.nextId = 4], toolResults).state
    IN  clearToolCalls(completeStreaming(state4))

\* the ids a UI resource may name: the two calls of the turn and one that no
\* result carries
OriginalIds == {CallIds[1][1], CallIds[1][2], "gone"}

\* what the tool run for a UI action may come back as
ActionKinds == ResultKinds \ {"ui"}

\* state.chat.messages.find(m => m.toolResults?.some(r => r.tool_call_id === id)):
\* the index of the first such message, 0 when there is none
FindMessage(messages, id) ==
    LET at == {i \in 1..Len(messages) :
                  \E r \in 1..Len(messages[i].toolResults) :
                      messages[i].toolResults[r].tool_call_id = id}
    IN  IF at = {} THEN 0 ELSE Min(at)

\* message.toolResults.map(r => r.tool_call_id === id ? updatedResult : r)
ReplaceResult(toolResults, id, updatedResult) ==
    [r \in 1..Len(toolResults) |->
        IF toolResults[r].tool_call_id = id THEN updatedResult ELSE toolResults[r]]

\* the thunk after its await: state is the store as the thunk read it when it
\* started, current the store now
UpdateOriginal(current, state, originalToolCallId, result) ==
    LET m == FindMessage(state.messages, originalToolCallId)
        updatedResult == [result EXCEPT !.tool_call_id = originalToolCallId]
        updated ==
            IF m # 0 /\ state.messages[m].toolResults # <<>>
            THEN updateMessageToolResults(current, state.messages[m].id,
                     ReplaceResult(state.messages[m].toolResults,
                                   originalToolCallId, updatedResult))
            ELSE current
    IN  setExecutingTools(updated, FALSE)

\* dispatch(executeUIAction(...)): up to the await of executeToolCall, or the
\* throw when no server has the tool
ExecuteUIAction(originalToolCallId, serverFound) ==
    /\ Len(uiActions) < MaxActions
    /\ uiActions' = Append(uiActions,
            [ originalToolCallId |-> originalToolCallId,
              state  |-> chat,
              pc     |-> IF serverFound THEN "executing" ELSE "rejected",
              open   |-> {i \in 1..Len(uiActions) : uiActions[i].pc = "executing"},
              result |-> <<>> ])
    /\ chat' = IF serverFound THEN setExecutingTools(chat, TRUE) ELSE chat
    /\ UNCHANGED <<loop, streams, signal, env, requests, executions>>
    /\ UNCHANGED <<streamVars, pluginVars>>

\* executeToolCall resolved: the thunk runs to its end
ActionResolves(i, kind) ==
    /\ uiActions[i].pc = "executing"
    /\ LET toolCall == [id |-> "uuid", name |-> "f"]
           result == ResultOf(toolCall, kind)
       IN  /\ chat' = UpdateOriginal(chat, uiActions[i].state,
                                     uiActions[i].originalToolCallId, result)
           /\ uiActions' = [uiActions EXCEPT ![i].pc = "fulfilled",
                                             ![i].result = <<result>>]
    /\ UNCHANGED <<loop, streams, signal, env, requests, executions>>
    /\ UNCHANGED <<streamVars, pluginVars>>

\* executeToolCall rejected: the thunk is left at the await
ActionRejects(i) ==
    /\ uiActions[i].pc = "executing"
    /\ uiActions' = [uiActions EXCEPT ![i].pc = "rejected"]
    /\ UNCHANGED <<chat, loop, streams, signal, env, requests, executions>>
    /\ UNCHANGED <<streamVars, pluginVars>>

InitActions ==
    /\ text = <<>>
    /\ StreamIdle(AllCallbacks)
    /\ PluginsIdle
    /\ chat = ChatWithResults
    /\ loop = [IdleLoop EXCEPT !.pc = "fulfilled"]
    /\ streams = <<>>
    /\ signal = FALSE
    /\ env = NoEnv
    /\ requests = <<>>
    /\ executions = <<>>
    /\ uiActions = <<>>

NextActions ==
    \/ \E id \in OriginalIds, serverFound \in BOOLEAN : ExecuteUIAction(id, serverFound)
    \/ \E i \in 1..Len(uiActions), kind \in ActionKinds : ActionResolves(i, kind)
    \/ \E i \in 1..Len(uiActions) : ActionRejects(i)

SpecActions == InitActions /\ [][NextActions]_vars

----------------------------------------------------------------------------
(* Helpers of the properties *)

RECURSIVE Strip(_)
\* s with every start and end marker removed, left to right
Strip(s) ==
    LET m == Match(s, OpenTags \cup CloseTags)
    IN  IF m.found THEN SliceTo(s, m.index) \o Strip(SliceFrom(s, m.index + m.len))
        ELSE s

Count(s, c) == Cardinality({i \in 1..Len(s) : s[i] = c})

Chars(s) == {s[i] : i \in 1..Len(s)}

\* s and t hold the same characters, each the same number of times
SameChars(s, t) ==
    \A c \in Chars(s) \cup Chars(t) : Count(s, c) = Count(t, c)

IsPrefix(p, s) == Len(p) <= Len(s) /\ SubSeq(s, 1, Len(p)) = p

\* the stream has ended and was flushed, at the [DONE] sentinel, at stream end
\* or on abort, and no frame followed a sentinel
Flushed ==
    /\ ~afterDone
    /\ \/ pc = "reading" /\ lastEvent = "sentinel"
       \/ pc = "returned" /\ lastEvent \in {"end", "abort"} /\ nframes > 0

\* the outcome of the same text received as one single fragment
Unsplit == flushBufferAndComplete(HandleContent(NewSession(callbacks), Sent))

----------------------------------------------------------------------------
(* Properties of the splitter *)

\* C1: once the stream has ended, the content output and the reasoning output
\* (the caller supplying onReasoning), markers removed, hold exactly the
\* characters of the text received with its markers stripped: none is lost,
\* none is emitted twice, however the text was cut into fragments.
C1_NoCharacterLostOrDuplicated ==
    (Flushed /\ callbacks.onReasoning) =>
        SameChars(Strip(accumulatedContent) \o Strip(accumulatedReasoning), Strip(Sent))

\* a marker arrived split over fragments, and both outputs received text
C1_Witness ==
    /\ Flushed /\ callbacks.onReasoning /\ splitMarker
    /\ accumulatedContent # <<>> /\ accumulatedReasoning # <<>>

\* C2: at end of stream the total content and the total reasoning are those of
\* the same text received unsplit, whatever the fragment boundaries.
C2_ChunkingIndependent ==
    Flushed =>
        /\ accumulatedContent = Unsplit.accumulatedContent
        /\ accumulatedReasoning = Unsplit.accumulatedReasoning

\* C3: a text without any marker, shorter or longer than the detection
\* threshold and cut in any way, is delivered whole through onChunk and nothing
\* through onReasoning by the time the stream ends.
C3_NoMarkersAllContent ==
    (Flushed /\ ~Match(Sent, OpenTags \cup CloseTags).found) =>
        /\ accumulatedContent = Sent
        /\ accumulatedReasoning = <<>>
        /\ \A i \in 1..Len(calls) : calls[i] # "onReasoning"

\* a marker-free text longer than the threshold, received in several fragments
C3_Witness ==
    /\ Flushed /\ ~Match(Sent, OpenTags \cup CloseTags).found
    /\ Len(Sent) > FORMAT_DETECTION_THRESHOLD /\ nframes > 1
    /\ accumulatedContent = Sent

\* C4: when the first marker of the text is an end marker, all text before it
\* is delivered as reasoning and all text after it, up to the next start
\* marker, as content (stated for the texts with a single end marker).
C4_ImplicitMode ==
    LET closeMatch == Match(Sent, CloseTags)
        openMatch == Match(Sent, OpenTags)
        rest == SliceFrom(Sent, closeMatch.index + closeMatch.len)
        nextOpen == Match(rest, OpenTags)
        after == IF nextOpen.found THEN SliceTo(rest, nextOpen.index) ELSE rest
    IN  (/\ Flushed /\ callbacks.onReasoning
         /\ closeMatch.found
         /\ (openMatch.found => closeMatch.index < openMatch.index)
         /\ ~Match(rest, CloseTags).found) =>
            /\ IsPrefix(SliceTo(Sent, closeMatch.index), accumulatedReasoning)
            /\ IsPrefix(after, accumulatedContent)

----------------------------------------------------------------------------
(* Properties of the tool-call accumulator and of the callback order *)

TimesIn(cs, name) == Cardinality({i \in 1..Len(cs) : cs[i] = name})

RECURSIVE ArgsOf(_, _)
\* the argument fragments received for index ix, concatenated in arrival order
ArgsOf(log, ix) ==
    IF log = <<>> THEN <<>>
    ELSE (IF Head(log).index = ix THEN Head(log).arguments ELSE <<>>) \o ArgsOf(Tail(log), ix)

\* the first non-empty value of field f ("id" or "name") received for index ix
FirstOf(log, ix, f) ==
    LET at == {i \in 1..Len(log) : log[i].index = ix /\ log[i][f] # ""}
    IN  IF at = {} THEN "" ELSE log[Min(at)][f]

IndexesSeen == {deltaLog[i].index : i \in 1..Len(deltaLog)}

\* the last step handled a finish_reason frame and passed a list to onToolCalls
Delivered ==
    /\ lastEvent = "json" /\ lastFrame.finish_reason
    /\ calls # <<>> /\ calls[Len(calls)] = "onToolCalls"

LastOut == toolCallsOut[Len(toolCallsOut)]

\* C5: the entry finalized for an index has the argument fragments received
\* for that index concatenated in arrival order, and the first non-empty id
\* and name received for it; the accumulator holds the same at every moment.
C5_AccumulatedByIndex ==
    /\ callbacks.onToolCalls =>
        {accumulatedToolCalls[i].index : i \in 1..Len(accumulatedToolCalls)} = IndexesSeen
    /\ \A i \in 1..Len(accumulatedToolCalls) :
        LET e == accumulatedToolCalls[i] IN
        /\ e.arguments = ArgsOf(deltaLog, e.index)
        /\ e.id = FirstOf(deltaLog, e.index, "id")
        /\ e.name = FirstOf(deltaLog, e.index, "name")
    /\ Delivered =>
        \A i \in 1..Len(LastOut) :
            LET e == LastOut[i] IN
            /\ ArgsOf(deltaLog, e.index) # <<>> => e.arguments = ArgsOf(deltaLog, e.index)
            /\ e.id = FirstOf(deltaLog, e.index, "id")
            /\ e.name = FirstOf(deltaLog, e.index, "name")

\* an entry is delivered with two fragments concatenated and with the first id,
\* although a later delta for its index carried another id
C5_Witness ==
    /\ Delivered
    /\ \E i \in 1..Len(LastOut) :
        /\ LastOut[i].arguments = <<"{", "}">>
        /\ LastOut[i].id = "a"
        /\ \E k \in 1..Len(deltaLog) :
            deltaLog[k].index = LastOut[i].index /\ deltaLog[k].id = "b"

\* C6: the list passed to onToolCalls holds one entry per distinct index seen,
\* in ascending index order, whatever the order in which the indexes arrived.
C6_AscendingIndexOrder ==
    Delivered =>
        /\ {LastOut[i].index : i \in 1..Len(LastOut)} = IndexesSeen
        /\ Len(LastOut) = Cardinality(IndexesSeen)
        /\ \A i, j \in 1..Len(LastOut) : i < j => LastOut[i].index < LastOut[j].index

\* C7: no tool call passed to onToolCalls has empty arguments; an entry whose
\* accumulated arguments are empty is passed with the arguments "{}".
C7_ArgumentsNeverEmpty ==
    /\ \A k \in 1..Len(toolCallsOut) : \A i \in 1..Len(toolCallsOut[k]) :
            toolCallsOut[k][i].arguments # <<>>
    /\ Delivered =>
        \A i \in 1..Len(LastOut) :
            ArgsOf(deltaLog, LastOut[i].index) = <<>> => LastOut[i].arguments = <<"{", "}">>

\* a tool call whose deltas carried no arguments is delivered
C7_Witness ==
    /\ Delivered
    /\ \E i \in 1..Len(LastOut) :
        /\ ArgsOf(deltaLog, LastOut[i].index) = <<>>
        /\ LastOut[i].arguments = <<"{", "}">>

\* C8: handling a JSON frame, a finish_reason frame included, never invokes
\* onComplete; onComplete is invoked only at the [DONE] sentinel, at stream end
\* or on abort, and a frame that carries usage is delivered to onUsage by that
\* frame's own step, so a usage frame after the finish_reason frame reaches
\* onUsage before onComplete.
C8_CompleteDeferred ==
    [][ /\ lastEvent' = "json" =>
            TimesIn(calls', "onComplete") = TimesIn(calls, "onComplete")
        /\ TimesIn(calls', "onComplete") > TimesIn(calls, "onComplete") =>
            lastEvent' \in {"sentinel", "end", "abort"}
        /\ (lastEvent' = "json" /\ lastFrame'.usage /\ callbacks.onUsage) =>
            TimesIn(calls', "onUsage") > TimesIn(calls, "onUsage")
      ]_vars

\* tool calls were delivered at a finish_reason frame, a later frame delivered
\* usage, and only then did the stream end with the one onComplete
C8_Witness ==
    /\ pc = "returned" /\ lastEvent = "end" /\ Len(calls) >= 3
    /\ calls[Len(calls)] = "onComplete"
    /\ calls[Len(calls) - 1] = "onUsage"
    /\ calls[Len(calls) - 2] = "onToolCalls"
    /\ TimesIn(calls, "onComplete") = 1

\* the callbacks one step invoked: what the step appended to calls
NewCalls(before, after) == SubSeq(after, Len(before) + 1, Len(after))

\* C9: when a finish_reason frame carries usage and tool calls have been
\* accumulated, that frame invokes onUsage before onToolCalls (both supplied).
C9_UsageBeforeToolCalls ==
    [][ (/\ lastEvent' = "json" /\ lastFrame'.finish_reason /\ lastFrame'.usage
         /\ Len(accumulatedToolCalls') > 0
         /\ callbacks.onUsage /\ callbacks.onToolCalls) =>
            LET new == NewCalls(calls, calls') IN
            /\ \E j \in 1..Len(new) : new[j] = "onToolCalls"
            /\ \A j \in 1..Len(new) : new[j] = "onToolCalls" =>
                    \E i \in 1..(j - 1) : new[i] = "onUsage"
      ]_vars

\* a finish_reason frame with usage delivered accumulated tool calls
C9_Witness ==
    /\ Delivered /\ lastFrame.usage
    /\ callbacks.onUsage /\ callbacks.onToolCalls
    /\ TimesIn(calls, "onUsage") > 0

----------------------------------------------------------------------------
(* Cancellation *)

\* C10: when the abort signal ends the call, before the response or during the
\* read, the text held in the pending buffer has gone through the flush,
\* onComplete was invoked exactly once and onError never.
C10_AbortCompletesOnce ==
    (pc = "returned" /\ lastEvent = "abort") =>
        /\ pendingBuffer = <<>>
        /\ (~afterDone /\ callbacks.onReasoning) =>
            SameChars(Strip(accumulatedContent) \o Strip(accumulatedReasoning), Strip(Sent))
        /\ TimesIn(calls, "onError") = 0
        /\ TimesIn(calls, "onComplete") = 1

----------------------------------------------------------------------------
(* Error handling of the driver *)

\* C12: a frame whose data is not valid JSON invokes no callback and leaves the
\* pending buffer, the splitter state and the tool-call accumulator as they
\* were, so that every later event is handled from the same session as if the
\* frame had not been sent.
C12_MalformedSkipped ==
    [][lastEvent' = "malformed" => Session' = Session]_vars

\* a malformed frame arrives while text is buffered and tool calls accumulated
C12_Witness ==
    /\ lastEvent = "malformed"
    /\ pendingBuffer # <<>>
    /\ accumulatedToolCalls # <<>>
    /\ calls = <<>>

\* C13: a response that is not ok makes the call invoke onError exactly once
\* and nothing else, with the body's error.message when the body is JSON that
\* carries one and with the generic HTTP <status> message when it carries none.
C13_HttpErrorReported ==
    (response.kind = "http" /\ ~response.ok) =>
        /\ calls = <<"onError">>
        /\ Len(errors) = 1
        /\ (response.body.isJson /\ response.body.hasError /\ response.body.message # <<>>)
              => errors[1] = response.body.message
        /\ (~response.body.isJson \/ ~response.body.hasError)
              => /\ Len(errors[1]) >= 2
                 /\ errors[1][1] = "HTTP "
                 /\ errors[1][2] = response.status

\* a 500 whose JSON body carries error.message
C13_Witness ==
    /\ response.kind = "http" /\ response.status = "500"
    /\ response.body.hasError
    /\ errors = << <<"quota exceeded">> >>

----------------------------------------------------------------------------
(* Properties of the tool-calling loop *)

\* the thunk has settled
Terminated == loop.pc \in {"fulfilled", "rejected"}

\* the ids of the tool-role messages placed after position i
AnsweredAfter(messages, i) ==
    {messages[j].tool_call_id : j \in {k \in i + 1..Len(messages) : messages[k].role = "tool"}}

\* some assistant message carries a tool call that no later tool-role message
\* answers
Dangling(messages) ==
    \E i \in 1..Len(messages) :
        /\ messages[i].role = "assistant"
        /\ \E c \in 1..Len(messages[i].toolCalls) :
              messages[i].toolCalls[c].id \notin AnsweredAfter(messages, i)

\* C11: whenever the thunk has terminated, every assistant message of
\* chat.messages that carries tool calls has a tool-role message for each of
\* them.
C11_NoDanglingToolCalls == Terminated => ~Dangling(chat.messages)

MaxIterationsMessage == <<"Maximum tool calling iterations reached">>

\* C14: a turn issues at most MAX_TOOL_ITERATIONS requests; when it ends
\* normally after N responses with tool calls it has issued min(5, N + 1)
\* requests, and the maximum-iterations error is set exactly when all five
\* responses carried tool calls; a terminated turn issues no request.
C14_IterationCap ==
    [][ /\ Len(requests') <= MAX_TOOL_ITERATIONS
        /\ (loop.pc # "fulfilled" /\ loop'.pc = "fulfilled") =>
              /\ Len(requests') = Min({MAX_TOOL_ITERATIONS, Len(executions') + 1})
              /\ (chat'.error = MaxIterationsMessage)
                    <=> (Len(executions') = MAX_TOOL_ITERATIONS)
        /\ Terminated => requests' = requests ]_vars

\* all five responses asked for tools: the turn is stopped with the error
C14_Witness ==
    /\ loop.pc = "fulfilled"
    /\ Len(requests) = MAX_TOOL_ITERATIONS /\ Len(executions) = MAX_TOOL_ITERATIONS
    /\ chat.error = MaxIterationsMessage

\* C15: every request of a turn carries tool_choice none when no tools are
\* available or the request is the one of iteration MAX_TOOL_ITERATIONS - 1,
\* and auto otherwise.
C15_ToolChoice ==
    \A r \in 1..Len(requests) :
        /\ requests[r].iteration = r - 1
        /\ requests[r].tool_choice =
              IF ~loop.hasTools \/ requests[r].iteration = MAX_TOOL_ITERATIONS - 1
              THEN "none" ELSE "auto"

\* a turn with tools that reaches the last request the cap allows
C15_Witness ==
    /\ loop.hasTools /\ Len(requests) = MAX_TOOL_ITERATIONS
    /\ requests[MAX_TOOL_ITERATIONS - 1].tool_choice = "auto"
    /\ requests[MAX_TOOL_ITERATIONS].tool_choice = "none"

\* the last message of a history
LastOf(messages) == messages[Len(messages)]

\* C16: when the stream promise resolved and onToolCalls delivered nothing,
\* the thunk stores the accumulated streaming content as an assistant message,
\* clears the streaming and tool-call state and fulfils, with no further
\* request and no tool execution.
C16_NoToolCallsFinalizes ==
    [][ (/\ loop.pc = "stream" /\ loop.promise = "resolved"
         /\ loop.assistantToolCalls = <<>> /\ loop'.pc # "stream")
        => /\ loop'.pc = "fulfilled" /\ ~loop'.shouldContinue
           /\ requests' = requests /\ executions' = executions
           /\ chat'.pendingToolCalls = <<>> /\ ~chat'.isExecutingTools
           /\ ~chat'.isStreaming /\ chat'.streamingContent = <<>>
           /\ chat.streamingContent = <<>> => chat'.messages = chat.messages
           /\ chat.streamingContent # <<>> =>
                 /\ Len(chat'.messages) = Len(chat.messages) + 1
                 /\ SubSeq(chat'.messages, 1, Len(chat.messages)) = chat.messages
                 /\ LastOf(chat'.messages).role = "assistant"
                 /\ LastOf(chat'.messages).content = chat.streamingContent
                 /\ LastOf(chat'.messages).toolCalls = <<>> ]_vars

\* the streaming calls that have not returned
InFlight == {i \in 1..Len(streams) : streams[i].pc # "returned"}

\* C17: the loop is strictly sequential: at most one streaming call is in
\* flight at any time, and every tool execution started after the stream of its
\* iteration had invoked onComplete.
C17_StrictlySequential ==
    /\ Cardinality(InFlight) <= 1
    /\ \A e \in 1..Len(executions) : executions[e].completed

\* the results stored on the assistant message of the iteration
StoredResults(messages, id) ==
    LET at == {i \in 1..Len(messages) : messages[i].id = id}
    IN  IF at = {} THEN <<>> ELSE messages[CHOOSE i \in at : TRUE].toolResults

\* the step issues the request of an iteration after the first
NextRequest == Len(requests') = Len(requests) + 1 /\ Len(requests) >= 1

\* C18: the request of iteration k + 1 is issued only when executeToolCalls
\* of iteration k has returned, and in that step one tool-role message per
\* result has been appended, in result order, to the outgoing message list and
\* to chat.messages.
C18_ResultsBeforeNextRequest ==
    [][ NextRequest =>
        LET e == executions'[Len(executions')]
            results == StoredResults(chat'.messages, loop.assistantMessageId)
            n == Len(results)
            out == loop'.messages
            stored == chat'.messages
        IN  /\ e.outcome = "returned" /\ e.iteration = Len(requests) - 1
            /\ n = Len(loop.assistantToolCalls) /\ n > 0
            /\ Len(out) = Len(loop.messages) + n
            /\ Len(stored) = Len(chat.messages) + n
            /\ \A i \in 1..n :
                  /\ out[Len(loop.messages) + i].role = "tool"
                  /\ out[Len(loop.messages) + i].tool_call_id = results[i].tool_call_id
                  /\ out[Len(loop.messages) + i].content = contentString(results[i])
                  /\ stored[Len(chat.messages) + i].role = "tool"
                  /\ stored[Len(chat.messages) + i].tool_call_id = results[i].tool_call_id
                  /\ stored[Len(chat.messages) + i].toolResults = <<results[i]>> ]_vars

\* a second request went out after two results, a failed one and a text one,
\* were appended in that order
C18_Witness ==
    /\ Len(requests) = 2 /\ Len(loop.messages) = 4
    /\ loop.messages[3].role = "tool" /\ loop.messages[3].content = <<"e">>
    /\ loop.messages[4].role = "tool" /\ loop.messages[4].content = <<"r">>
    /\ loop.messages[3].tool_call_id # loop.messages[4].tool_call_id

\* the step in which executeToolCalls returned with a failed result
ErrorResultReturned ==
    /\ loop.pc = "tools" /\ loop'.pc # "tools"
    /\ executions'[Len(executions')].outcome = "returned"
    /\ \E r \in 1..Len(StoredResults(chat'.messages, loop.assistantMessageId)) :
          StoredResults(chat'.messages, loop.assistantMessageId)[r].isError

\* C20: a tool result with isError does not stop the loop: it is appended as
\* a tool-role message like any other result, and the loop goes on to the next
\* request (while the iteration cap allows one) with chat.error unset.
C20_ErrorResultContinues ==
    [][ ErrorResultReturned =>
        LET results == StoredResults(chat'.messages, loop.assistantMessageId)
        IN  /\ Len(chat'.messages) = Len(chat.messages) + Len(results)
            /\ Len(loop'.messages) = Len(loop.messages) + Len(results)
            /\ \A r \in 1..Len(results) :
                  /\ chat'.messages[Len(chat.messages) + r].role = "tool"
                  /\ chat'.messages[Len(chat.messages) + r].content = contentString(results[r])
                  /\ chat'.messages[Len(chat.messages) + r].tool_call_id = results[r].tool_call_id
                  /\ loop'.messages[Len(loop.messages) + r].role = "tool"
                  /\ loop'.messages[Len(loop.messages) + r].content = contentString(results[r])
            /\ loop'.iteration = loop.iteration + 1
            /\ loop'.iteration < MAX_TOOL_ITERATIONS =>
                  /\ loop'.pc = "stream" /\ Len(requests') = Len(requests) + 1
                  /\ chat'.error = NoError
            /\ loop'.iteration >= MAX_TOOL_ITERATIONS =>
                  /\ loop'.pc = "fulfilled" /\ chat'.error = MaxIterationsMessage ]_vars

\* the only result of the first iteration failed and the second request is out
C20_Witness ==
    /\ Len(requests) = 2 /\ loop.pc = "stream" /\ chat.error = NoError
    /\ Len(chat.messages) = 3
    /\ chat.messages[3].role = "tool" /\ chat.messages[3].toolResults[1].isError

\* the i-th streaming call reports onError in this step
ReportsError(i) == i <= Len(streams') /\ streams'[i].failed /\ ~streams[i].failed

\* C19: when the stream of iteration k reports onError while the turn is
\* running, chat.error is set and the awaited promise is rejected, so that the
\* thunk rejects; no tool of iteration k has been started and no request after
\* that of iteration k has been issued.
C19_ErrorStopsLoop ==
    [][ \A i \in 1..Len(streams) :
            (ReportsError(i) /\ ~Terminated) =>
                /\ chat'.error # NoError
                /\ loop'.pc = "stream" /\ loop'.promise = "rejected"
                /\ Len(requests') = i
                /\ \A e \in 1..Len(executions') : executions'[e].iteration < i - 1 ]_vars

\* executeToolCalls returns in this step
ToolsReturned ==
    /\ loop.pc = "tools" /\ loop'.pc # "tools"
    /\ executions'[Len(executions')].outcome = "returned"

\* the confirmation sent to the model in place of a UI resource
Confirmation(name) ==
    <<"Interactive UI component displayed successfully. The user can now interact with the ",
      name, " interface.">>

\* C21: for a result with hasUI and a uiResource the tool message sent to the
\* model has the fixed confirmation as content and nothing of the UI payload,
\* while the stored tool-role message keeps the whole result in toolResults;
\* for every other result the content sent is the result content, stringified
\* when it is no string.
C21_UIResourceConfirmation ==
    [][ ToolsReturned =>
        LET results == StoredResults(chat'.messages, loop.assistantMessageId)
        IN  /\ Len(loop'.messages) = Len(loop.messages) + Len(results)
            /\ Len(chat'.messages) = Len(chat.messages) + Len(results)
            /\ \A r \in 1..Len(results) :
                  LET sent == loop'.messages[Len(loop.messages) + r]
                      kept == chat'.messages[Len(chat.messages) + r]
                      res == results[r]
                  IN  /\ kept.toolResults = <<res>>
                      /\ (res.hasUI /\ res.uiResource # NoResource) =>
                            /\ sent.content = Confirmation(res.name)
                            /\ \A k \in 1..Len(sent.content) :
                                  sent.content[k] \notin {res.uiResource[j] : j \in 1..Len(res.uiResource)}
                            /\ kept.toolResults[1].uiResource = UIPayload
                      /\ (~res.hasUI \/ res.uiResource = NoResource) =>
                            sent.content = IF res.content.isString THEN res.content.value
                                           ELSE <<"{">> \o res.content.value \o <<"}">> ]_vars

\* the result of the first iteration had a UI resource: the second request
\* carries the confirmation and the stored message keeps the payload
C21_Witness ==
    /\ Len(requests) = 2 /\ Len(loop.messages) = 3
    /\ loop.messages[3].role = "tool"
    /\ loop.messages[3].content = Confirmation("f")
    /\ LastOf(chat.messages).role = "tool"
    /\ LastOf(chat.messages).toolResults # <<>>
    /\ LastOf(chat.messages).toolResults[1].uiResource = UIPayload

\* abortStreaming is dispatched in this step
AbortDispatched ==
    /\ ~Busy
    /\ env'.odd = env.odd + 1
    /\ chat' = abortStreaming(chat)
    /\ loop' = loop /\ streams' = streams

\* the thunk is between its start and its termination
Running == loop.pc \in {"stream", "tools"}

\* C22: at every point of a running turn, dispatching abortStreaming aborts
\* the controller whose signal the streaming calls of the turn were given.
C22_CancellableAtAnyTime ==
    [][ (AbortDispatched /\ Running) => signal' ]_vars

ActiveReplacements ==
    {p \in PluginIds : plugins.loaded[p] = "active" /\ TypeOf(p) = "renderer-replacement"}

\* C24: at most one renderer-replacement plugin has status 'active' at any
\* time, under any sequence and interleaving of enablePlugin, disablePlugin,
\* reloadPlugin and initialize calls.
C24_OneActiveReplacement == Cardinality(ActiveReplacements) <= 1

\* no complete start or end marker in s
NoMarkerIn(s) == ~Match(s, OpenTags \cup CloseTags).found

\* the step of the threshold branch: the format becomes known although the
\* text received so far holds no marker
ThresholdStep == ~formatDetected /\ formatDetected' /\ NoMarkerIn(Sent')

\* the threshold branch was taken and no marker has arrived since
AssumedContent == formatDetected /\ NoMarkerIn(Sent)

\* C25: when the detection buffer reaches the threshold with no marker found,
\* the buffer goes out as content (its last characters may still be held by
\* the guard), and from then on the splitter stays in content: whatever
\* arrives later, no text is delivered as reasoning.
C25_ThresholdCommitsToContent ==
    [][ /\ ThresholdStep => accumulatedContent' \o pendingBuffer' = Sent'
        /\ AssumedContent => ~isInsideThinkBlock' /\ accumulatedReasoning' = <<>> ]_vars

\* the fragment received in this step and the buffer it is processed in
Fragment == Flatten(SubSeq(text, pos + 1, pos'))
Processed == pendingBuffer \o Fragment

\* the code finds a marker in buf: an end marker inside a reasoning block, a
\* start or an end marker outside
FoundMarker(buf, inside) ==
    IF inside THEN Match(buf, CloseTags).found
    ELSE Match(buf, OpenTags \cup CloseTags).found

\* C26: once the format is known and while the stream has not ended, after
\* every content fragment processed with no marker found, the last 15
\* characters of the buffer (the whole buffer if it is shorter) are still in
\* the pending buffer, and only the text before them has been emitted.
C26_PartialMarkerGuard ==
    [][ ( /\ pos' > pos
          /\ formatDetected'
          /\ pc' = "reading"
          /\ ~FoundMarker(Processed, isInsideThinkBlock) )
        => LET kept == Len(pendingBuffer')
               out  == SliceTo(Processed, Len(Processed) - kept)
           IN  /\ kept >= Min({GUARD, Len(Processed)})
               /\ kept <= Len(Processed)
               /\ pendingBuffer' = SliceFrom(Processed, Len(Processed) - kept)
               /\ accumulatedContent' =
                      accumulatedContent \o (IF isInsideThinkBlock THEN <<>> ELSE out)
               /\ accumulatedReasoning' =
                      accumulatedReasoning \o (IF isInsideThinkBlock THEN out ELSE <<>>) ]_vars

\* inside a reasoning block, a fragment left exactly the guard in the buffer
\* and its first character went out as reasoning
C26_Witness ==
    /\ formatDetected
    /\ isInsideThinkBlock
    /\ pc = "reading"
    /\ pendingBuffer = Rep(GUARD, "y")
    /\ accumulatedReasoning = <<"y">>

\* C27: a text delivered through onChunk or onReasoning never contains a
\* complete start or end marker: in every step that makes exactly one such
\* call, the text it delivers holds no marker.
C27_MarkersDiscarded ==
    [][ /\ calls' = Append(calls, "onChunk")
            => NoMarkerIn(SliceFrom(accumulatedContent', Len(accumulatedContent)))
        /\ calls' = Append(calls, "onReasoning")
            => NoMarkerIn(SliceFrom(accumulatedReasoning', Len(accumulatedReasoning))) ]_vars

\* the ids of the tool calls carried by the assistant messages before
\* position i
CalledBefore(messages, i) ==
    UNION {{messages[j].toolCalls[c].id : c \in 1..Len(messages[j].toolCalls)} :
              j \in {k \in 1..(i - 1) : messages[k].role = "assistant"}}

\* C28: every tool-role message of chat.messages carries the id of a tool call
\* of an assistant message placed before it.
C28_ToolMessagesAnswerCalls ==
    \A i \in 1..Len(chat.messages) :
        chat.messages[i].role = "tool"
            => chat.messages[i].tool_call_id \in CalledBefore(chat.messages, i)

\* two iterations with tool calls have stored their results
C28_Witness ==
    /\ Len(executions) = 2
    /\ Cardinality({i \in 1..Len(chat.messages) : chat.messages[i].role = "tool"}) >= 2

\* the step in which a response with tool calls is taken up: the executor is
\* called
ToolsCalled == Len(executions') = Len(executions) + 1

\* C29: in the iteration step that takes up a response with tool calls, exactly
\* one message is added to chat.messages: an assistant message that carries
\* the tool calls and the partial content, as the one pushed on the outgoing
\* list, so that the tool results follow it directly.
C29_OneAssistantMessage ==
    [][ ToolsCalled =>
        LET added == SliceFrom(chat'.messages, Len(chat.messages))
            sent  == LastOf(loop'.messages)
        IN  /\ Len(added) = 1
            /\ added[1].role = "assistant" /\ sent.role = "assistant"
            /\ added[1].toolCalls = loop'.assistantToolCalls
            /\ added[1].content = sent.content ]_vars

\* C30: every tool call passed to onToolCalls has arguments that are valid
\* JSON, whatever argument fragments arrived before the finish_reason frame.
C30_ArgumentsValidJson ==
    \A k \in 1..Len(toolCallsOut) : \A i \in 1..Len(toolCallsOut[k]) :
        IsJsonText(toolCallsOut[k][i].arguments)

\* C31: when enablePlugin(id) returns, the loaded plugin id has status
\* 'active' and its stored config is enabled; when disablePlugin(id) returns,
\* its status is not 'active' and its stored config is not enabled.
C31_EnableDisablePostconditions ==
    ended.result = "returned" =>
        /\ ended.op = "enablePlugin" =>
              plugins.loaded[ended.id] = "active" /\ plugins.enabled[ended.id]
        /\ ended.op = "disablePlugin" =>
              plugins.loaded[ended.id] # "active" /\ ~plugins.enabled[ended.id]

\* C39: a plugin whose load failed is not 'active' while its instance is the
\* empty placeholder the failed load stored.
C39_FailedLoadNeverActive ==
    \A p \in plugins.placeholder : plugins.loaded[p] # "active"

\* the terminal callbacks invoked so far
Terminals == TimesIn(calls, "onComplete") + TimesIn(calls, "onError")

\* C32: a streaming call invokes at most one terminal callback, onComplete or
\* onError, and when the call has returned it has invoked exactly one.
C32_OneTerminalCallback ==
    /\ Terminals <= 1
    /\ pc = "returned" => Terminals = 1


\* the data callbacks: every callback but the two terminal ones
DataCallbacks == {"onChunk", "onReasoning", "onUsage", "onToolCalls"}

\* C33: once onComplete has been invoked, no step of the call invokes onChunk,
\* onReasoning, onUsage or onToolCalls, whatever the backend sends after the
\* [DONE] sentinel.
C33_SilentAfterComplete ==
    [][ TimesIn(calls, "onComplete") > 0 =>
            \A i \in 1..Len(NewCalls(calls, calls')) :
                NewCalls(calls, calls')[i] \notin DataCallbacks ]_vars


\* C34: a call that received a tool-call delta invokes onToolCalls (when
\* supplied) at most once, and has invoked it before it invokes onComplete.
C34_ToolCallsDeliveredOnce ==
    (callbacks.onToolCalls /\ deltaLog # <<>>) =>
        /\ TimesIn(calls, "onToolCalls") <= 1
        /\ \A i \in 1..Len(calls) :
              calls[i] = "onComplete" =>
                  \E j \in 1..(i - 1) : calls[j] = "onToolCalls"


\* C35: a frame that carries a usage payload invokes onUsage (when supplied)
\* exactly once, also when the same frame carries finish_reason.
C35_OneUsagePerFrame ==
    [][ (lastEvent' = "json" /\ nframes' = nframes + 1
         /\ lastFrame'.usage /\ callbacks.onUsage) =>
            TimesIn(NewCalls(calls, calls'), "onUsage") = 1 ]_vars


\* the step ran flushBufferAndComplete
FlushStep == lastEvent' \in {"sentinel", "end", "abort"}

\* C36: while the format is not detected, the state after every processed
\* frame has a pending buffer without a complete start or end marker and no
\* text emitted from inline content; a flush in that state emits the whole
\* pending buffer as content, and nothing else, before onComplete.
C36_UndetectedBufferIsPlain ==
    [][ /\ (lastEvent' = "json" /\ ~formatDetected') =>
              /\ NoMarkerIn(pendingBuffer')
              /\ accumulatedContent' = <<>>
              /\ accumulatedReasoning' = <<>>
        /\ (FlushStep /\ ~formatDetected) =>
              /\ accumulatedContent' = accumulatedContent \o pendingBuffer
              /\ accumulatedReasoning' = accumulatedReasoning
              /\ pendingBuffer' = <<>>
              /\ NewCalls(calls, calls') =
                    IF pendingBuffer = <<>> THEN <<"onComplete">>
                    ELSE <<"onChunk", "onComplete">> ]_vars


\* C37: once the signal of the turn is aborted no tool execution starts, and
\* no step outside a tool execution that was already running sets chat.error.
C37_AbortStopsTheTurn ==
    [][ signal =>
            /\ Len(executions') = Len(executions)
            /\ loop.pc # "tools" => chat'.error \in {chat.error, <<>>} ]_vars


\* the streaming and tool-call state of the chat slice is cleared
Cleared(state) ==
    /\ ~state.isStreaming
    /\ ~state.isExecutingTools
    /\ state.pendingToolCalls = <<>>
    /\ ~state.abortController

\* C38: when every streaming call invokes a terminal callback and every tool
\* execution returns or throws, a turn that has started terminates, and the
\* step in which it terminates leaves isStreaming and isExecutingTools false,
\* pendingToolCalls empty and abortController null.
C38_TurnTerminatesCleared ==
    /\ Running ~> Terminated
    /\ [][ (Running /\ Terminated') => Cleared(chat') ]_vars

\* a turn that executed tools has terminated, in either way, with the state
\* cleared
C38_Witness ==
    /\ Terminated /\ Len(executions) > 0
    /\ Cleared(chat)


\* the result the action i puts in place of the original one
UpdatedResult(i) ==
    [uiActions[i].result[1] EXCEPT !.tool_call_id = uiActions[i].originalToolCallId]

\* the actions i and j, j dispatched while i was executing, have both run to
\* their end for different results of one message, and no other action ran
BothFinished(i, j) ==
    /\ i \in uiActions[j].open
    /\ uiActions[i].pc = "fulfilled" /\ uiActions[j].pc = "fulfilled"
    /\ uiActions[i].originalToolCallId # uiActions[j].originalToolCallId
    /\ FindMessage(ChatWithResults.messages, uiActions[i].originalToolCallId) # 0
    /\ FindMessage(ChatWithResults.messages, uiActions[i].originalToolCallId)
          = FindMessage(ChatWithResults.messages, uiActions[j].originalToolCallId)
    /\ \A k \in 1..Len(uiActions) : k \in {i, j} \/ uiActions[k].pc = "rejected"

\* C40: when two overlapping executeUIAction runs for different
\* originalToolCallIds of one message have both finished, the toolResults of
\* the message hold the new result of each of the two ids and every other
\* result as it was, and no other message has changed.
C40_BothActionsTakeEffect ==
    \A i, j \in 1..Len(uiActions) :
        BothFinished(i, j) =>
            LET m == FindMessage(ChatWithResults.messages, uiActions[i].originalToolCallId)
                before == ChatWithResults.messages
            IN  chat.messages =
                    [before EXCEPT ![m].toolResults =
                        ReplaceResult(
                            ReplaceResult(@, uiActions[i].originalToolCallId, UpdatedResult(i)),
                            uiActions[j].originalToolCallId, UpdatedResult(j))]

====
